---- MODULE Spec2Model ----
(***************************************************************************)
(* Model of the exo-sense sonification code.                               *)
(*                                                                         *)
(*   frontend/app/utils/sonification.ts      the rendering engine          *)
(*   frontend/app/components/SonificationPanel.tsx   the playback panels   *)
(*                                                                         *)
(* Real numbers are fixed point integers: amplitudes, volumes, z scores    *)
(* and sample values in thousandths, frequencies in milli-Hz, MIDI note    *)
(* numbers in cents (hundredths of a semitone), speeds in hundredths.      *)
(***************************************************************************)
EXTENDS Integers, Sequences, FiniteSets, TLC

VARIABLES
    \* Series Normalizer (resolveBoolArray, resolveOddEven)
    boolValues, tagValues, length, boolResult, tagResult, normDone,
    \* Scale Quantizer (quantizeFrequency)
    freqIn, quantized, requantized, quantPc,
    \* Frequency Mapper (frequencySeries)
    flux, quantize, freqs, mapPc,
    \* renderSonification: its arguments, its locals, its result, its position
    series, options, audio, renderPc,
    \* SonificationPanel: which of the three panels of SonificationPanel.tsx
    \* is mounted, its React state, its refs, the audio sources it created,
    \* and the callbacks that are due
    variant, isPlaying, settings, sourceRef, gainRef, ctxState,
    sources, endedQueue, inflight, effectPending, lastAction,
    \* the panel of lines 188-460: whether it is mounted, the timeout ids in
    \* vibrationTimeoutsRef, and the timeouts the browser still has to run
    mounted, vibrationTimeouts, timers,
    \* segmentSamples: the results obtained so far for one series length
    timings,
    \* the sample loop of the renderers: its bounds, its counter, its lookups
    loop,
    \* the calls of renderSonification made so far, each with its result
    calls,
    \* amplitudeSeries: the two masks and the amplitudes computed from them
    levels,
    \* renderTransitPing: its sample loop and its event loop, step by step
    ping,
    \* one transit event and the amplitude of its burst
    burst,
    \* ExoplanetDetector: the selected file, the results, the requests
    detector,
    \* the API client: one call, the response it meets, what it returns
    api

normVars == <<boolValues, tagValues, length, boolResult, tagResult, normDone>>
quantVars == <<freqIn, quantized, requantized, quantPc>>
mapVars == <<flux, quantize, freqs, mapPc>>
renderVars == <<series, options, audio, renderPc>>
hapticVars == <<mounted, vibrationTimeouts, timers>>
panelVars == <<variant, isPlaying, settings, sourceRef, gainRef, ctxState,
               sources, endedQueue, inflight, effectPending, lastAction,
               hapticVars>>
auxVars == <<timings, loop, calls>>
moreVars == <<levels, ping, burst, detector, api>>
vars == <<normVars, quantVars, mapVars, renderVars, panelVars, auxVars, moreVars>>

(***************************************************************************)
(* Bounds of the model.                                                    *)
(***************************************************************************)
MaxLen == 2          \* largest canonical length N given to the normalizer
MaxFreqHz == 1800    \* quantizer inputs run up to MaxFreqHz Hz (see FreqInputs)
MaxRun == 11         \* longest run of equal flux values given to the mapper
MaxPoints == 2       \* longest flux series given to renderSonification
MaxEvents == 1       \* most transit events in a rendered series
MaxSources == 3      \* most audio sources a panel creates in one run
MaxInflight == 2     \* most handlePlay calls waiting for resume() at once

(***************************************************************************)
(* Generic helpers.                                                        *)
(***************************************************************************)
Min(a, b) == IF a < b THEN a ELSE b
Max(a, b) == IF a > b THEN a ELSE b
Abs(a) == IF a < 0 THEN -a ELSE a

\* const clamp = (value, min, max) => Math.max(min, Math.min(max, value))
clamp(value, min, max) == Max(min, Min(max, value))

\* an optional array argument: undefined, or an array
Absent == [present |-> FALSE, items |-> <<>>]
Present(s) == [present |-> TRUE, items |-> s]

SeqsUpTo(S, n) == UNION {[1..k -> S] : k \in 0..n}

(***************************************************************************)
(* Series Normalizer.                                                      *)
(***************************************************************************)
OddEvenTags == {"odd", "even", "null"}

resolveBoolArray_noTruncate(values, len) ==
    IF ~values.present \/ Len(values.items) = 0 THEN [i \in 1..len |-> FALSE]
    ELSE IF Len(values.items) >= len THEN values.items
    ELSE values.items \o [i \in 1..(len - Len(values.items)) |-> FALSE]

resolveBoolArray(values, len) ==
    IF ~values.present \/ Len(values.items) = 0 THEN [i \in 1..len |-> FALSE]
    ELSE IF Len(values.items) = len THEN values.items
    ELSE IF Len(values.items) > len THEN SubSeq(values.items, 1, len)
    ELSE values.items \o [i \in 1..(len - Len(values.items)) |-> FALSE]

resolveOddEven(values, len) ==
    IF ~values.present THEN [i \in 1..len |-> "null"]
    ELSE [i \in 1..len |->
            IF i <= Min(len, Len(values.items))
               /\ values.items[i] \in {"odd", "even"}
            THEN values.items[i] ELSE "null"]

NormIdle ==
    /\ boolValues = Absent /\ tagValues = Absent /\ length = 0
    /\ boolResult = <<>> /\ tagResult = <<>> /\ normDone = {}

InitNormalizer ==
    /\ boolValues \in {Absent} \cup {Present(s) : s \in SeqsUpTo(BOOLEAN, MaxLen + 1)}
    /\ tagValues \in {Absent} \cup {Present(s) : s \in SeqsUpTo(OddEvenTags, MaxLen + 1)}
    /\ length \in 0..MaxLen
    /\ boolResult = <<>> /\ tagResult = <<>> /\ normDone = {}

ResolveBool ==
    /\ "bool" \notin normDone
    /\ boolResult' = resolveBoolArray(boolValues, length)
    /\ normDone' = normDone \cup {"bool"}
    /\ UNCHANGED <<boolValues, tagValues, length, tagResult>>

ResolveTags ==
    /\ "tags" \notin normDone
    /\ tagResult' = resolveOddEven(tagValues, length)
    /\ normDone' = normDone \cup {"tags"}
    /\ UNCHANGED <<boolValues, tagValues, length, boolResult>>

(***************************************************************************)
(* Scale Quantizer.                                                        *)
(*                                                                         *)
(* Math.log2 and Math.pow are computed on a table of the twelve equal      *)
(* tempered semitone ratios 2^(j/12), scaled by 10000, with linear         *)
(* interpolation inside a semitone and rounding to the nearest cent.       *)
(***************************************************************************)
\* a scale without its highest step, the major sixth
PENTATONIC_STEPS_noSixth == <<0, 2, 4, 7>>

PENTATONIC_STEPS == <<0, 2, 4, 7, 9>>

SemitoneRatio ==
    <<10000, 10595, 11225, 11892, 12599, 13348, 14142,
      14983, 15874, 16818, 17818, 18877, 20000>>

A440 == 440000      \* 440 Hz in milli-Hz

RECURSIVE Pow2(_)
Pow2(n) == IF n <= 0 THEN 1 ELSE 2 * Pow2(n - 1)

\* the octave k with 440*2^k <= f < 440*2^(k+1), f > 0 in milli-Hz
RECURSIVE OctaveOf(_, _)
OctaveOf(f, k) ==
    IF f < A440 THEN OctaveOf(2 * f, k - 1)
    ELSE IF f >= 2 * A440 THEN OctaveOf(f \div 2, k + 1)
    ELSE k

RECURSIVE Mantissa(_)
Mantissa(f) ==
    IF f < A440 THEN Mantissa(2 * f)
    ELSE IF f >= 2 * A440 THEN Mantissa(f \div 2)
    ELSE f \div 44

\* the semitone j in 0..11 with SemitoneRatio[j+1] <= x < SemitoneRatio[j+2]
SemitoneBelow(x) ==
    CHOOSE j \in 0..11 : SemitoneRatio[j + 1] <= x /\ x < SemitoneRatio[j + 2]

\* 69 + 12 * Math.log2(freq / 440), in cents
MidiOf(f) ==
    LET x == Mantissa(f)
        j == SemitoneBelow(x)
        lo == SemitoneRatio[j + 1]
        hi == SemitoneRatio[j + 2]
        frac == (200 * (x - lo) + (hi - lo)) \div (2 * (hi - lo))
    IN  6900 + 1200 * OctaveOf(f, 0) + 100 * j + frac

\* 440 * Math.pow(2, (midi - 69) / 12) for a whole semitone number, in milli-Hz
FreqOfMidi(midi) ==
    LET d == midi - 69
        o == d \div 12
        j == d % 12
        base == 44 * SemitoneRatio[j + 1]
    IN  IF o >= 0 THEN base * Pow2(o) ELSE base \div Pow2(-o)

\* a reduce that replaces the step found so far on a tie as well
RECURSIVE NearestStep_lastOnTie(_, _, _)
NearestStep_lastOnTie(within, prev, i) ==
    IF i > Len(PENTATONIC_STEPS) THEN prev
    ELSE LET current == PENTATONIC_STEPS[i]
         IN  NearestStep_lastOnTie(within,
                 IF Abs(100 * current - within) <= Abs(100 * prev - within)
                 THEN current ELSE prev,
                 i + 1)

\* PENTATONIC_STEPS.reduce((prev, current) =>
\*   Math.abs(current - within) < Math.abs(prev - within) ? current : prev)
RECURSIVE NearestStep(_, _, _)
NearestStep(within, prev, i) ==
    IF i > Len(PENTATONIC_STEPS) THEN prev
    ELSE LET current == PENTATONIC_STEPS[i]
         IN  NearestStep(within,
                 IF Abs(100 * current - within) < Abs(100 * prev - within)
                 THEN current ELSE prev,
                 i + 1)

quantizeFrequency_wrongReference(freq) ==
    IF freq <= 0 THEN 220000
    ELSE LET midi == MidiOf(freq)
             octave == midi \div 1200
             withinOctave == midi - octave * 1200
             nearest == NearestStep(withinOctave, PENTATONIC_STEPS[1], 2)
             quantizedMidi == octave * 12 + nearest
         IN  FreqOfMidi(quantizedMidi + 9)

quantizeFrequency(freq) ==
    IF freq <= 0 THEN 220000
    ELSE LET midi == MidiOf(freq)
             octave == midi \div 1200
             withinOctave == midi - octave * 1200
             nearest == NearestStep(withinOctave, PENTATONIC_STEPS[1], 2)
             quantizedMidi == octave * 12 + nearest
         IN  FreqOfMidi(quantizedMidi)

\* quantizer inputs: 0 and -1 Hz, and every whole frequency from 100 Hz up
FreqInputs == {0, -1000} \cup {1000 * h : h \in 100..MaxFreqHz}

QuantIdle == freqIn = 0 /\ quantized = 0 /\ requantized = 0 /\ quantPc = "idle"

InitQuantizer ==
    /\ freqIn \in FreqInputs
    /\ quantized = 0 /\ requantized = 0 /\ quantPc = "ready"

Quantize ==
    /\ quantPc = "ready"
    /\ quantized' = quantizeFrequency(freqIn)
    /\ quantPc' = "once"
    /\ UNCHANGED <<freqIn, requantized>>

Requantize ==
    /\ quantPc = "once"
    /\ requantized' = quantizeFrequency(quantized)
    /\ quantPc' = "twice"
    /\ UNCHANGED <<freqIn, quantized>>

(***************************************************************************)
(* Frequency Mapper.                                                       *)
(*                                                                         *)
(* Flux values are whole numbers; mean, deviation, standard deviation and  *)
(* z score are in thousandths, the variance in millionths.                 *)
(***************************************************************************)
RECURSIVE SumSeq(_)
SumSeq(s) == IF s = <<>> THEN 0 ELSE Head(s) + SumSeq(Tail(s))

\* division of a signed value, rounding toward zero
SDiv(a, b) == IF a >= 0 THEN a \div b ELSE -((-a) \div b)

\* Math.sqrt on a whole number: the largest r with r * r <= n
RECURSIVE SqrtFrom(_, _, _)
SqrtFrom(n, lo, hi) ==
    IF lo >= hi THEN lo
    ELSE LET mid == (lo + hi + 1) \div 2
         IN  IF mid * mid <= n THEN SqrtFrom(n, mid, hi)
             ELSE SqrtFrom(n, lo, mid - 1)

Sqrt(n) == SqrtFrom(n, 0, 46340)

\* flux.reduce((acc, value) => acc + value, 0) / flux.length
MeanOf(fl) == SDiv(1000 * SumSeq(fl), Len(fl))

\* flux.reduce((acc, value) => acc + Math.pow(value - mean, 2), 0) / flux.length
VarianceOf(fl) ==
    LET mean == MeanOf(fl)
    IN  SumSeq([i \in 1..Len(fl) |-> (1000 * fl[i] - mean) * (1000 * fl[i] - mean)])
            \div Len(fl)

\* (value - mean) / std with std = Math.sqrt(variance) || 1e-6; a zero
\* standard deviation is replaced by 1e-6, a thousandth of a thousandth
ZScore(fl, i) ==
    LET dev == 1000 * fl[i] - MeanOf(fl)
        std == Sqrt(VarianceOf(fl))
    IN  IF std = 0 THEN dev * 1000000 ELSE SDiv(dev * 1000, std)

frequencySeries_wideClamp(fl, q) ==
    IF Len(fl) = 0 THEN <<>>
    ELSE [index \in 1..Len(fl) |->
            LET z == clamp(ZScore(fl, index), -4000, 4000)
                freq == 220000 + SDiv((z + 3000) * (880 - 220), 6)
            IN  IF q THEN quantizeFrequency(freq) ELSE freq]

frequencySeries(fl, q) ==
    IF Len(fl) = 0 THEN <<>>
    ELSE [index \in 1..Len(fl) |->
            LET z == clamp(ZScore(fl, index), -3000, 3000)
                freq == 220000 + SDiv((z + 3000) * (880 - 220), 6)
            IN  IF q THEN quantizeFrequency(freq) ELSE freq]

Rep(x, n) == [i \in 1..n |-> x]

FluxLevels == {0, 1, 3}

\* mapper inputs: a run of one level, then up to two samples of another
FluxInputs ==
    {Rep(x, a) \o Rep(y, b) : x \in FluxLevels, y \in FluxLevels,
                              a \in 0..MaxRun, b \in 0..2}

MapIdle == flux = <<>> /\ quantize = FALSE /\ freqs = <<>> /\ mapPc = "idle"

InitMapper ==
    /\ flux \in FluxInputs
    /\ quantize \in BOOLEAN
    /\ freqs = <<>> /\ mapPc = "ready"

MapFrequencies ==
    /\ mapPc = "ready"
    /\ freqs' = frequencySeries(flux, quantize)
    /\ mapPc' = "done"
    /\ UNCHANGED <<flux, quantize>>

(***************************************************************************)
(* Frequency Mapper on a constant series, in binary64.                     *)
(*                                                                         *)
(* The mean of flux is a sum and a division of doubles, each rounded to 53 *)
(* significant bits, round to nearest, ties to even.  A double is held as  *)
(* its 53 bit significand M, the value being M times a power of two that   *)
(* is the same for all samples and cancels.  A significand, and the sums   *)
(* of up to eight of them, are numbers below 2^60 held as four limbs of 15 *)
(* bits, lowest first.                                                     *)
(***************************************************************************)
LimbBase == 32768

BigZero == <<0, 0, 0, 0>>

\* propagate the carries of four limbs
BigNorm(x) ==
    LET l1 == x[1]
        l2 == x[2] + (l1 \div LimbBase)
        l3 == x[3] + (l2 \div LimbBase)
        l4 == x[4] + (l3 \div LimbBase)
    IN  <<l1 % LimbBase, l2 % LimbBase, l3 % LimbBase, l4>>

BigAdd(a, b) == BigNorm([i \in 1..4 |-> a[i] + b[i]])

BigTimes(a, k) == BigNorm([i \in 1..4 |-> a[i] * k])

\* quotient and remainder of a division by a small whole number
BigDiv(a, n) ==
    LET t4 == a[4]
        t3 == (t4 % n) * LimbBase + a[3]
        t2 == (t3 % n) * LimbBase + a[2]
        t1 == (t2 % n) * LimbBase + a[1]
    IN  [q |-> <<t1 \div n, t2 \div n, t3 \div n, t4 \div n>>, r |-> t1 % n]

\* -1, 0 or 1 as a is below, equal to or above b
BigCmp(a, b) ==
    LET differ == {i \in 1..4 : a[i] # b[i]}
    IN  IF differ = {} THEN 0
        ELSE LET top == CHOOSE i \in differ : \A j \in differ : j <= i
             IN  IF a[top] < b[top] THEN -1 ELSE 1

RECURSIVE NatBits(_)
NatBits(n) == IF n = 0 THEN 0 ELSE 1 + NatBits(n \div 2)

\* number of significant bits
BitLen(x) ==
    LET used == {i \in 1..4 : x[i] # 0}
    IN  IF used = {} THEN 0
        ELSE LET top == CHOOSE i \in used : \A j \in used : j <= i
             IN  15 * (top - 1) + NatBits(x[top])

\* x, followed by a fraction that is nonzero iff sticky, rounded to a
\* multiple of 2^j, ties to even; j is at most 14
RoundToEven(x, j, sticky) ==
    LET p == Pow2(j)
        low == x[1] % p
        down == [x EXCEPT ![1] = @ - low]
        odd == (x[1] \div p) % 2 = 1
        up == IF 2 * low # p THEN 2 * low > p ELSE (sticky \/ odd)
        inexact == low # 0 \/ sticky
    IN  IF inexact /\ up THEN BigAdd(down, <<p, 0, 0, 0>>) ELSE down

\* a sum rounded to 53 significant bits
Round53(x) == RoundToEven(x, Max(0, BitLen(x) - 53), FALSE)

\* flux.reduce((acc, value) => acc + value, 0) on n samples of significand m
RECURSIVE SumOfConstant(_, _)
SumOfConstant(m, n) ==
    IF n = 0 THEN BigZero ELSE Round53(BigAdd(SumOfConstant(m, n - 1), m))

\* the mean of n samples of significand m, in eighths
MeanOfConstant(m, n) ==
    LET d == BigDiv(BigTimes(SumOfConstant(m, n), 8), n)
    IN  RoundToEven(d.q, BitLen(d.q) - 53, d.r # 0)

\* the sign of value - mean
DeviationSign(m, n) == BigCmp(BigTimes(m, 8), MeanOfConstant(m, n))

\* frequencySeries on n samples that all have the significand m.  All
\* deviations are the same d: when d = 0 the variance is 0, std is 1e-6 and
\* z is 0; otherwise the variance is d * d and std is |d|, both within a
\* rounding error of 2^-52, so z is 1 or -1 in thousandths.
frequencySeriesOfConstant(fl, q) ==
    IF Len(fl) = 0 THEN <<>>
    ELSE [index \in 1..Len(fl) |->
            LET z == clamp(1000 * DeviationSign(fl[index], Len(fl)), -3000, 3000)
                freq == 220000 + SDiv((z + 3000) * (880 - 220), 6)
            IN  IF q THEN quantizeFrequency(freq) ELSE freq]

MaxCount == 7

\* the significands of 0.1, 0.3, 1.0, 0.7, 0.999, 1.0001, 1.1 and 1.5
Significands ==
    { <<6554, 13107, 26214, 204>>, <<13107, 26214, 19660, 153>>,
      <<0, 0, 0, 128>>, <<26214, 19660, 6553, 179>>,
      <<1835, 12845, 24379, 255>>, <<11377, 14103, 419, 128>>,
      <<6554, 13107, 26214, 140>>, <<0, 0, 0, 192>> }

InitConstant ==
    /\ flux \in {Rep(m, n) : m \in Significands, n \in 1..MaxCount}
    /\ quantize \in BOOLEAN
    /\ freqs = <<>> /\ mapPc = "ready"

MapConstant ==
    /\ mapPc = "ready"
    /\ freqs' = frequencySeriesOfConstant(flux, quantize)
    /\ mapPc' = "done"
    /\ UNCHANGED <<flux, quantize>>

(***************************************************************************)
(* Waveform synthesis.                                                     *)
(*                                                                         *)
(* A phase is counted in 1/16000 of a cycle, so that a tone of f Hz        *)
(* advances it by f per output sample.  Samples before normalization are   *)
(* in ten-thousandths, normalized and returned samples in thousandths.     *)
(* Buffers are sequences: output sample s of the code is element s + 1.    *)
(***************************************************************************)
SAMPLE_RATE == 16000
BASE_DURATION == 20      \* 0.02 s, in milliseconds
MIN_DURATION == 5        \* 0.005 s, in milliseconds

\* the value of an arithmetic expression over undefined (freqs[-1])
NaN == -2000000000

\* Math.sin of a phase, in thousandths (Bhaskara's approximation on a cycle
\* cut into 800 steps)
Sin(phase) ==
    LET q == (phase % SAMPLE_RATE) \div 20
        x == IF q < 400 THEN q ELSE q - 400
        h == (4000 * x * (400 - x)) \div (200000 - x * (400 - x))
    IN  IF q < 400 THEN h ELSE -h

\* Math.exp(-3 * (offset / pingSamples)), in thousandths, interpolated
\* between its values at the eighths of the window
ExpDecay == <<1000, 687, 472, 325, 223, 153, 105, 72, 50>>

Envelope(offset, pingSamples) ==
    LET pos == (8000 * offset) \div pingSamples
        k == pos \div 1000
        r == pos % 1000
    IN  ExpDecay[k + 1] - ((ExpDecay[k + 1] - ExpDecay[k + 2]) * r) \div 1000

\* an amplitudeSeries in which a transit lowers the level instead
amplitudeSeries_transitDucks(inTr, sec) ==
    [i \in 1..Len(inTr) |->
        clamp(180 - (IF inTr[i] THEN 150 ELSE 0) + (IF sec[i] THEN 80 ELSE 0),
              80, 650)]

\* const amplitudeSeries = (inTransit, secondary) => ...
amplitudeSeries(inTr, sec) ==
    [i \in 1..Len(inTr) |->
        clamp(180 + (IF inTr[i] THEN 150 ELSE 0) + (IF sec[i] THEN 80 ELSE 0),
              80, 650)]

\* a segmentSamples without the clamp of the speed and the minimum duration
segmentSamples_unbounded(len, speed) ==
    LET num == BASE_DURATION * SAMPLE_RATE * 100
        den == 1000 * speed
        perPoint == Max(1, (2 * num + den) \div (2 * den))
        total == Max(1, perPoint * Max(1, len))
    IN  [perPoint |-> perPoint, total |-> total]

\* a segmentSamples that bounds the speed from above only
segmentSamples_noLowerClamp(len, speed) ==
    LET safeSpeed == Min(speed, 400)
        num == Max(BASE_DURATION * SAMPLE_RATE * 100,
                   MIN_DURATION * SAMPLE_RATE * safeSpeed)
        den == 1000 * safeSpeed
        perPoint == Max(1, (2 * num + den) \div (2 * den))
        total == Max(1, perPoint * Max(1, len))
    IN  [perPoint |-> perPoint, total |-> total]

\* segmentSamples, lines 83-89
segmentSamples(len, speed) ==
    LET safeSpeed == clamp(speed, 25, 400)
        \* duration * SAMPLE_RATE = num / den
        num == Max(BASE_DURATION * SAMPLE_RATE * 100,
                   MIN_DURATION * SAMPLE_RATE * safeSpeed)
        den == 1000 * safeSpeed
        perPoint == Max(1, (2 * num + den) \div (2 * den))
        total == Max(1, perPoint * Max(1, len))
    IN  [perPoint |-> perPoint, total |-> total]

\* a data index that rounds sample / perPoint up
DataIndex_roundsUp(ser, perPoint, sample) ==
    Min(Len(ser.flux) - 1, (sample + perPoint - 1) \div perPoint)

\* Math.min(series.flux.length - 1, Math.floor(sample / perPoint)), 0-based
DataIndex(ser, perPoint, sample) == Min(Len(ser.flux) - 1, sample \div perPoint)

\* secondary[dataIndex], false when dataIndex is -1
IsSecondary(sec, d) == d >= 0 /\ d < Len(sec) /\ sec[d + 1]

\* how often secondaryPhaseState.value was advanced up to and including
\* output sample `sample`
RECURSIVE SecondaryRuns(_, _)
SecondaryRuns(sec, d) ==
    IF d <= 0 THEN 0
    ELSE SecondaryRuns(sec, d - 1) + (IF IsSecondary(sec, d - 1) THEN 1 ELSE 0)

SecondarySteps(ser, perPoint, sec, sample) ==
    LET d == DataIndex(ser, perPoint, sample)
    IN  IF d < 0 THEN 0
        ELSE perPoint * SecondaryRuns(sec, d)
             + (IF IsSecondary(sec, d) THEN sample - d * perPoint + 1 ELSE 0)

\* lines 98-112: the carrier and the secondary tone at one output sample
CarrierAt(ser, perPoint, sec, sample) ==
    SDiv(Sin(440 * sample) * 120, 100)
    + (IF IsSecondary(sec, DataIndex(ser, perPoint, sample))
       THEN SDiv(Sin(660 * SecondarySteps(ser, perPoint, sec, sample)) * 80, 100)
       ELSE 0)

\* Math.max(Math.floor((SAMPLE_RATE * 0.1) / clamp(speed, 0.25, 4)), 1)
PingSamples(speed) == Max((10 * SAMPLE_RATE) \div clamp(speed, 25, 400), 1)

\* a start sample that is not clamped into the buffer
StartSample_unclamped(event, perPoint, total) == event.start_index * perPoint

StartSample(event, perPoint, total) ==
    Min(total - 1, Max(0, event.start_index * perPoint))

\* an amplitude that reads snr and depth with their signs
EventAmplitude_signed(event) ==
    clamp(IF event.snr > 0 THEN event.snr \div 5 ELSE event.depth * 40, 200, 800)

EventAmplitude(event) ==
    LET depth == Abs(event.depth)
        snr == Abs(event.snr)
    IN  clamp(IF snr > 0 THEN snr \div 5 ELSE depth * 40, 200, 800)

\* lines 117-130: what one event adds to output sample `sample`
BurstAt(event, perPoint, total, speed, sample) ==
    LET startSample == StartSample(event, perPoint, total)
        offset == sample - startSample
        pingSamples == PingSamples(speed)
    IN  IF offset >= 0 /\ offset < pingSamples /\ sample < total
        THEN SDiv(SDiv(Sin(880 * (offset + 1)) * EventAmplitude(event), 100)
                  * Envelope(offset, pingSamples), 1000)
        ELSE 0

RECURSIVE BurstsAt(_, _, _, _, _)
BurstsAt(events, perPoint, total, speed, sample) ==
    IF events = <<>> THEN 0
    ELSE BurstAt(Head(events), perPoint, total, speed, sample)
         + BurstsAt(Tail(events), perPoint, total, speed, sample)

\* renderTransitPing before its normalization loop
TransitPingBuffer(ser, perPoint, total, speed, sec) ==
    [k \in 1..total |->
        CarrierAt(ser, perPoint, sec, k - 1)
        + BurstsAt(ser.events, perPoint, total, speed, k - 1)]

\* the running phase of renderFluxPitch after output sample `sample`, in
\* 1/16000000 of a cycle (frequencies are in milli-Hz)
RECURSIVE PhaseBefore(_, _, _)
PhaseBefore(fr, perPoint, d) ==
    IF d <= 0 THEN 0
    ELSE (PhaseBefore(fr, perPoint, d - 1) + perPoint * fr[d]) % (1000 * SAMPLE_RATE)

PhaseAt(ser, fr, perPoint, sample) ==
    LET d == DataIndex(ser, perPoint, sample)
    IN  (PhaseBefore(fr, perPoint, d) + (sample - d * perPoint + 1) * fr[d + 1])
            % (1000 * SAMPLE_RATE)

\* Math.sin(phase) * amp at one output sample; NaN when the series is empty
ToneAt(ser, fr, amps, perPoint, sample) ==
    IF DataIndex(ser, perPoint, sample) < 0 THEN NaN
    ELSE SDiv(Sin(PhaseAt(ser, fr, perPoint, sample) \div 1000)
              * amps[DataIndex(ser, perPoint, sample) + 1], 100)

\* renderFluxPitch before its normalization loop
FluxPitchBuffer(ser, fr, amps, perPoint, total) ==
    [k \in 1..total |-> ToneAt(ser, fr, amps, perPoint, k - 1)]

\* a pan that sends odd to the right and even to the left
PanOf_swapped(tags, d) ==
    IF tags[d + 1] = "odd" THEN 750
    ELSE IF tags[d + 1] = "even" THEN 250
    ELSE 500

\* let pan = 0.5; if (tag === 'odd') pan = 0.25; if (tag === 'even') pan = 0.75
PanOf(tags, d) ==
    IF tags[d + 1] = "odd" THEN 250
    ELSE IF tags[d + 1] = "even" THEN 750
    ELSE 500

\* the stereo branch of renderOddEven before its normalization loop
OddEvenLeft(ser, fr, amps, tags, perPoint, total) ==
    [k \in 1..total |->
        LET value == ToneAt(ser, fr, amps, perPoint, k - 1)
        IN  IF value = NaN THEN NaN
            ELSE SDiv(value * (1000 - PanOf(tags, DataIndex(ser, perPoint, k - 1))), 1000)]

OddEvenRight(ser, fr, amps, tags, perPoint, total) ==
    [k \in 1..total |->
        LET value == ToneAt(ser, fr, amps, perPoint, k - 1)
        IN  IF value = NaN THEN NaN
            ELSE SDiv(value * PanOf(tags, DataIndex(ser, perPoint, k - 1)), 1000)]

\* max = Math.max(max, Math.abs(buffer[i])) over buffer[lo..hi]
RECURSIVE PeakOf(_, _, _)
PeakOf(buf, lo, hi) ==
    IF lo > hi THEN 0
    ELSE IF lo = hi THEN (IF buf[lo] = NaN THEN NaN ELSE Abs(buf[lo]))
    ELSE LET mid == (lo + hi) \div 2
             a == PeakOf(buf, lo, mid)
             b == PeakOf(buf, mid + 1, hi)
         IN  IF a = NaN \/ b = NaN THEN NaN ELSE Max(a, b)

\* if (max > 0) buffer[i] = buffer[i] / (max * 1.05)
Normalized(buf, max) ==
    IF max # NaN /\ max > 0
    THEN [k \in 1..Len(buf) |-> SDiv(buf[k] * 20000, max * 21)]
    ELSE buf

\* left[i] *= volume
Scaled(buf, volume) ==
    [k \in 1..Len(buf) |-> IF buf[k] = NaN THEN NaN ELSE SDiv(buf[k] * volume, 1000)]

renderTransitPing(ser, perPoint, total, speed, sec) ==
    LET buffer == TransitPingBuffer(ser, perPoint, total, speed, sec)
        max == PeakOf(buffer, 1, Len(buffer))
    IN  [left |-> Normalized(buffer, max), right |-> Absent]

renderFluxPitch(ser, fr, amps, perPoint, total) ==
    LET buffer == FluxPitchBuffer(ser, fr, amps, perPoint, total)
        max == PeakOf(buffer, 1, Len(buffer))
    IN  [left |-> Normalized(buffer, max), right |-> Absent]

\* a renderOddEven whose single channel is the left channel of the stereo pair
renderOddEven_monoFromLeft(ser, fr, amps, tags, perPoint, total, stereo) ==
    LET left == OddEvenLeft(ser, fr, amps, tags, perPoint, total)
        right == OddEvenRight(ser, fr, amps, tags, perPoint, total)
        peakL == PeakOf(left, 1, total)
        peakR == PeakOf(right, 1, total)
        max == IF peakL = NaN \/ peakR = NaN THEN NaN ELSE Max(peakL, peakR)
    IN  [left |-> Normalized(left, max),
         right |-> IF stereo THEN Present(Normalized(right, max)) ELSE Absent]

\* renderOddEven, lines 175-217
renderOddEven(ser, fr, amps, tags, perPoint, total, stereo) ==
    IF stereo
    THEN LET left == OddEvenLeft(ser, fr, amps, tags, perPoint, total)
             right == OddEvenRight(ser, fr, amps, tags, perPoint, total)
             peakL == PeakOf(left, 1, total)
             peakR == PeakOf(right, 1, total)
             max == IF peakL = NaN \/ peakR = NaN THEN NaN ELSE Max(peakL, peakR)
         IN  [left |-> Normalized(left, max), right |-> Present(Normalized(right, max))]
    ELSE [left |-> renderFluxPitch(ser, fr, amps, perPoint, total).left,
          right |-> Absent]

renderSonification_noVolumeClamp(ser, opts) ==
    LET n == Len(ser.flux)
        inTr == resolveBoolArray(ser.in_transit, n)
        sec == resolveBoolArray(ser.secondary_mask, n)
        tags == resolveOddEven(ser.odd_even, n)
        seg == segmentSamples(n, opts.speed)
        rendered ==
            IF opts.mode = "transit_ping"
            THEN renderTransitPing(ser, seg.perPoint, seg.total, opts.speed, sec)
            ELSE LET fr == frequencySeries(ser.flux, opts.quantize)
                     amps == amplitudeSeries(inTr, sec)
                 IN  IF opts.mode = "flux_pitch"
                     THEN renderFluxPitch(ser, fr, amps, seg.perPoint, seg.total)
                     ELSE renderOddEven(ser, fr, amps, tags, seg.perPoint,
                                        seg.total, opts.stereo)
        volume == Max(0, opts.volume)
        left == Scaled(rendered.left, volume)
    IN  [sampleRate |-> SAMPLE_RATE,
         left |-> left,
         right |-> IF rendered.right.present
                   THEN Present(Scaled(rendered.right.items, volume))
                   ELSE Absent,
         duration |-> (Len(left) * 1000000) \div SAMPLE_RATE]

\* a renderSonification that never returns the right channel
renderSonification_dropsRight(ser, opts) ==
    LET n == Len(ser.flux)
        inTr == resolveBoolArray(ser.in_transit, n)
        sec == resolveBoolArray(ser.secondary_mask, n)
        tags == resolveOddEven(ser.odd_even, n)
        seg == segmentSamples(n, opts.speed)
        rendered ==
            IF opts.mode = "transit_ping"
            THEN renderTransitPing(ser, seg.perPoint, seg.total, opts.speed, sec)
            ELSE LET fr == frequencySeries(ser.flux, opts.quantize)
                     amps == amplitudeSeries(inTr, sec)
                 IN  IF opts.mode = "flux_pitch"
                     THEN renderFluxPitch(ser, fr, amps, seg.perPoint, seg.total)
                     ELSE renderOddEven(ser, fr, amps, tags, seg.perPoint,
                                        seg.total, opts.stereo)
        volume == clamp(opts.volume, 0, 1000)
        left == Scaled(rendered.left, volume)
    IN  [sampleRate |-> SAMPLE_RATE,
         left |-> left,
         right |-> Absent,
         duration |-> (Len(left) * 1000000) \div SAMPLE_RATE]

\* a renderSonification that takes the stereo branch in flux_pitch mode too
renderSonification_stereoAnywhere(ser, opts) ==
    LET n == Len(ser.flux)
        inTr == resolveBoolArray(ser.in_transit, n)
        sec == resolveBoolArray(ser.secondary_mask, n)
        tags == resolveOddEven(ser.odd_even, n)
        seg == segmentSamples(n, opts.speed)
        rendered ==
            IF opts.mode = "transit_ping"
            THEN renderTransitPing(ser, seg.perPoint, seg.total, opts.speed, sec)
            ELSE LET fr == frequencySeries(ser.flux, opts.quantize)
                     amps == amplitudeSeries(inTr, sec)
                 IN  IF opts.mode = "flux_pitch" /\ ~opts.stereo
                     THEN renderFluxPitch(ser, fr, amps, seg.perPoint, seg.total)
                     ELSE renderOddEven(ser, fr, amps, tags, seg.perPoint,
                                        seg.total, opts.stereo)
        volume == clamp(opts.volume, 0, 1000)
        left == Scaled(rendered.left, volume)
    IN  [sampleRate |-> SAMPLE_RATE,
         left |-> left,
         right |-> IF rendered.right.present
                   THEN Present(Scaled(rendered.right.items, volume))
                   ELSE Absent,
         duration |-> (Len(left) * 1000000) \div SAMPLE_RATE]

\* renderSonification, lines 219-271; the duration is in microseconds
renderSonification(ser, opts) ==
    LET n == Len(ser.flux)
        inTr == resolveBoolArray(ser.in_transit, n)
        sec == resolveBoolArray(ser.secondary_mask, n)
        tags == resolveOddEven(ser.odd_even, n)
        seg == segmentSamples(n, opts.speed)
        rendered ==
            IF opts.mode = "transit_ping"
            THEN renderTransitPing(ser, seg.perPoint, seg.total, opts.speed, sec)
            ELSE LET fr == frequencySeries(ser.flux, opts.quantize)
                     amps == amplitudeSeries(inTr, sec)
                 IN  IF opts.mode = "flux_pitch"
                     THEN renderFluxPitch(ser, fr, amps, seg.perPoint, seg.total)
                     ELSE renderOddEven(ser, fr, amps, tags, seg.perPoint,
                                        seg.total, opts.stereo)
        volume == clamp(opts.volume, 0, 1000)
        left == Scaled(rendered.left, volume)
    IN  [sampleRate |-> SAMPLE_RATE,
         left |-> left,
         right |-> IF rendered.right.present
                   THEN Present(Scaled(rendered.right.items, volume))
                   ELSE Absent,
         duration |-> (Len(left) * 1000000) \div SAMPLE_RATE]

(***************************************************************************)
(* Timing.                                                                 *)
(*                                                                         *)
(* segmentSamples is called for one series length at several speeds; the   *)
(* results are kept side by side.                                          *)
(***************************************************************************)
MaxSeries == 3

\* speeds from below the lower clamp to above the upper clamp
TimingSpeeds == {10, 25, 100, 150, 200, 400, 1000}

TimingIdle == timings = [points |-> 0, results |-> {}]

InitTiming ==
    \E n \in 0..MaxSeries : timings = [points |-> n, results |-> {}]

Segment ==
    \E speed \in TimingSpeeds :
        /\ \A r \in timings.results : r.speed # speed
        /\ timings' = [timings EXCEPT !.results =
              @ \cup {[speed |-> speed,
                       segment |-> segmentSamples(timings.points, speed)]}]

(***************************************************************************)
(* Inputs of a render call.                                                *)
(***************************************************************************)
RenderFlux == {0, 1}

EventInputs ==
    [start_index : {-1, 1, MaxPoints + 1},
     depth : {-5, 10},
     snr : {0, 5000}]

SeriesOf(fl, inTr, sec, tags, events) ==
    [flux |-> fl, in_transit |-> inTr, secondary_mask |-> sec,
     odd_even |-> tags, events |-> events]

OptionsOf(mode, speed, q, stereo, volume) ==
    [mode |-> mode, speed |-> speed, quantize |-> q, stereo |-> stereo,
     volume |-> volume]

Speeds == {200, 1000}
Volumes == {-500, 500, 1000, 2000}

\* in-transit mask and secondary mask of a call
MaskInputs == {<<Absent, Absent>>, <<Present(<<TRUE>>), Present(<<FALSE, TRUE>>)>>}
OddEvenInputs == {Absent, Present(<<"odd", "even">>)}

\* transit_ping calls: the secondary mask, the events and the speed vary at
\* one volume, and the volume varies with and without one event
PingCalls ==
    {<<SeriesOf(fl, Absent, m[2], Absent, ev),
       OptionsOf("transit_ping", sp, FALSE, FALSE, 500)>> :
        fl \in SeqsUpTo(RenderFlux, MaxPoints), m \in MaskInputs,
        ev \in SeqsUpTo(EventInputs, MaxEvents), sp \in Speeds}
    \cup
    {<<SeriesOf(fl, Absent, Present(<<FALSE, TRUE>>), Absent, ev),
       OptionsOf("transit_ping", 1000, FALSE, FALSE, vol)>> :
        fl \in SeqsUpTo(RenderFlux, MaxPoints),
        ev \in {<<>>, <<[start_index |-> 1, depth |-> 10, snr |-> 5000]>>},
        vol \in Volumes}

\* flux_pitch and odd_even calls: the masks, the tags, the flags and the
\* speed vary at one volume, and the volume varies for one choice of them
MelodyCalls ==
    {<<SeriesOf(fl, m[1], m[2], tags, <<>>),
       OptionsOf(mode, sp, q, st, 500)>> :
        fl \in SeqsUpTo(RenderFlux, MaxPoints), m \in MaskInputs,
        tags \in OddEvenInputs, mode \in {"flux_pitch", "odd_even"},
        sp \in Speeds, q \in BOOLEAN, st \in BOOLEAN}
    \cup
    {<<SeriesOf(fl, Present(<<TRUE>>), Present(<<FALSE, TRUE>>),
                Present(<<"odd", "even">>), <<>>),
       OptionsOf(mode, 1000, FALSE, st, vol)>> :
        fl \in SeqsUpTo(RenderFlux, MaxPoints),
        mode \in {"flux_pitch", "odd_even"}, st \in BOOLEAN, vol \in Volumes}

NoAudio == [sampleRate |-> 0, left |-> <<>>, right |-> Absent, duration |-> 0]

RenderIdle ==
    /\ series = SeriesOf(<<>>, Absent, Absent, Absent, <<>>)
    /\ options = OptionsOf("transit_ping", 100, FALSE, FALSE, 0)
    /\ audio = NoAudio /\ renderPc = "idle"

InitRender ==
    /\ \E call \in PingCalls \cup MelodyCalls :
          series = call[1] /\ options = call[2]
    /\ audio = NoAudio /\ renderPc = "ready"

Render ==
    /\ renderPc = "ready"
    /\ audio' = renderSonification(series, options)
    /\ renderPc' = "done"
    /\ UNCHANGED <<series, options>>

CallsIdle == calls = <<>>

(***************************************************************************)
(* Repeated calls.                                                         *)
(*                                                                         *)
(* A caller holds a series and an options object, calls renderSonification *)
(* on them, and keeps each call with its result.  sonification.ts has no   *)
(* module level variable besides its constants, and no function in it      *)
(* writes to an argument: resolveBoolArray copies with slice / concat and   *)
(* every buffer is a new Float32Array.                                     *)
(***************************************************************************)
MaxCalls == 3

CallSeries ==
    { SeriesOf(<<0, 1>>, Present(<<TRUE>>), Present(<<FALSE, TRUE>>),
               Present(<<"odd", "even">>),
               <<[start_index |-> 1, depth |-> 10, snr |-> 5000]>>),
      SeriesOf(<<1>>, Absent, Absent, Absent, <<>>) }

CallOptions ==
    { OptionsOf("transit_ping", 1000, FALSE, FALSE, 500),
      OptionsOf("flux_pitch", 1000, FALSE, FALSE, 500),
      OptionsOf("odd_even", 1000, FALSE, FALSE, 500),
      OptionsOf("odd_even", 1000, FALSE, TRUE, 500) }

InitCalls == RenderIdle /\ CallsIdle

\* the caller sets up the arguments of its next call
PrepareCall ==
    /\ renderPc \in {"idle", "done"}
    /\ Len(calls) < MaxCalls
    /\ series' \in CallSeries
    /\ options' \in CallOptions
    /\ renderPc' = "ready"
    /\ UNCHANGED <<audio, calls>>

\* a render that accumulates into the buffer of the previous call
RenderCall_sharedBuffer ==
    /\ renderPc = "ready"
    /\ LET fresh == renderSonification(series, options)
           last == IF calls = <<>> THEN <<>> ELSE calls[Len(calls)].audio.left
       IN  audio' = IF Len(last) = Len(fresh.left)
                    THEN [fresh EXCEPT !.left = [k \in 1..Len(last) |-> last[k] + fresh.left[k]]]
                    ELSE fresh
    /\ calls' = Append(calls, [series |-> series, options |-> options, audio |-> audio'])
    /\ renderPc' = "done"
    /\ UNCHANGED <<series, options>>

\* renderSonification(series, options), lines 219-271
RenderCall ==
    /\ renderPc = "ready"
    /\ audio' = renderSonification(series, options)
    /\ calls' = Append(calls, [series |-> series, options |-> options, audio |-> audio'])
    /\ renderPc' = "done"
    /\ UNCHANGED <<series, options>>

(***************************************************************************)
(* The sample loop.                                                        *)
(*                                                                         *)
(* renderTransitPing, renderFluxPitch and renderOddEven run the same loop: *)
(* `for (let sample = 0; sample < total; sample += 1)` with one data index *)
(* for each sample, used to read freqs, amplitudes, secondary and oddEven, *)
(* which all have series.flux.length elements.  driven[d + 1] counts the   *)
(* samples that read data point d, outside the lookups that miss all.      *)
(***************************************************************************)
LoopSpeeds == {10, 25, 100, 150, 200, 400, 1000}

LoopIdle == loop = [pc |-> "idle"]

InitLoop ==
    \E n \in 0..MaxSeries, speed \in LoopSpeeds :
        loop = [pc |-> "start", len |-> n, speed |-> speed, perPoint |-> 0,
                total |-> 0, sample |-> 0, dataIndex |-> 0,
                driven |-> Rep(0, n), outside |-> 0]

\* const { perPoint, total } = segmentSamples(series.flux.length, options.speed)
EnterLoop ==
    /\ loop.pc = "start"
    /\ LET seg == segmentSamples(loop.len, loop.speed)
       IN  loop' = [loop EXCEPT !.pc = "loop", !.perPoint = seg.perPoint,
                                !.total = seg.total]

\* one pass through the loop body
LoopStep ==
    /\ loop.pc = "loop" /\ loop.sample < loop.total
    /\ LET d == DataIndex([flux |-> Rep(0, loop.len)], loop.perPoint, loop.sample)
       IN  loop' = [loop EXCEPT
                      !.dataIndex = d,
                      !.driven = IF d \in 0..(loop.len - 1)
                                 THEN [@ EXCEPT ![d + 1] = @ + 1] ELSE @,
                      !.outside = IF d \in 0..(loop.len - 1) THEN @ ELSE @ + 1,
                      !.sample = @ + 1]

ExitLoop ==
    /\ loop.pc = "loop" /\ loop.sample = loop.total
    /\ loop' = [loop EXCEPT !.pc = "done"]

AuxIdle == TimingIdle /\ LoopIdle /\ CallsIdle

AmpsIdle == levels = [pc |-> "idle"]

PingIdle == ping = [pc |-> "idle"]

BurstIdle == burst = [pc |-> "idle"]

DetectorIdle == detector = [pc |-> "idle"]

ApiIdle == api = [pc |-> "idle"]

MoreIdle == AmpsIdle /\ PingIdle /\ BurstIdle /\ DetectorIdle /\ ApiIdle

(***************************************************************************)
(* The playback panels.                                                    *)
(*                                                                         *)
(* SonificationPanel.tsx holds three panels:                               *)
(*   "A"  lines 188-460   refs sourceRef, gainRef; stops in an effect      *)
(*   "B"  lines 615-814   refs sourceNodeRef, gainNodeRef; stops in the    *)
(*                        change handlers                                  *)
(*   "C"  lines 999-1188  a new AudioContext per play; stops in an effect  *)
(*                                                                         *)
(* A source is "none" before createBufferSource, "playing" from start()    *)
(* until stop() ("stopped") or the end of its buffer ("ended").  Both      *)
(* stop() and the end of the buffer queue the source's ended event, which  *)
(* is delivered to onended later.  A state update is rendered at once; an  *)
(* effect that depends on the updated state is due (effectPending) until   *)
(* React flushes it, which React does on its own or, at the latest, before *)
(* it renders the next update.                                             *)
(*                                                                         *)
(* Panel "A" alone schedules vibration timeouts; its unmount, which has to *)
(* cancel them, is part of the model.                                      *)
(***************************************************************************)
Variants == {"A", "B", "C"}
SourceIds == 1..MaxSources

NoSource == [state |-> "none", connected |-> FALSE]

\* the id createBufferSource returns next, MaxSources + 1 when none is left
NextSource ==
    IF \E id \in SourceIds : sources[id].state = "none"
    THEN CHOOSE id \in SourceIds :
            sources[id].state = "none"
            /\ \A j \in SourceIds : j < id => sources[j].state # "none"
    ELSE MaxSources + 1

Act(name, stopped) == [name |-> name, stopped |-> stopped]

\* source.stop() then, when disconnect is TRUE, source.disconnect()
StopSource(srcs, ref, disconnect) ==
    IF ref = 0 THEN srcs
    ELSE [srcs EXCEPT ![ref] =
            [state |-> IF @.state = "playing" THEN "stopped" ELSE @.state,
             connected |-> IF disconnect THEN FALSE ELSE @.connected]]

\* the ended events stop() adds
StopQueue(ref) ==
    IF ref # 0 /\ sources[ref].state = "playing"
    THEN endedQueue \cup {ref} ELSE endedQueue

\* createBufferSource, connect, start
StartSource(srcs, id) == [srcs EXCEPT ![id] = [state |-> "playing", connected |-> TRUE]]

SettingsInputs == [mode : {"transit-ping", "flux-pitch"}, quantize : BOOLEAN, speed : {1, 2}]

PanelIdle ==
    /\ variant = "A" /\ isPlaying = FALSE
    /\ settings = [mode |-> "transit-ping", quantize |-> FALSE, speed |-> 1]
    /\ sourceRef = 0 /\ gainRef = 0 /\ ctxState = "none"
    /\ sources = [id \in SourceIds |-> NoSource]
    /\ endedQueue = {} /\ inflight = 0 /\ effectPending = FALSE
    /\ lastAction = Act("mount", 0)
    /\ mounted = TRUE /\ vibrationTimeouts = {} /\ timers = {}

InitPanel ==
    /\ variant \in Variants /\ isPlaying = FALSE
    /\ settings = [mode |-> "transit-ping", quantize |-> FALSE, speed |-> 1]
    /\ sourceRef = 0 /\ gainRef = 0 /\ ctxState = "none"
    /\ sources = [id \in SourceIds |-> NoSource]
    /\ endedQueue = {} /\ inflight = 0 /\ effectPending = FALSE
    /\ lastAction = Act("mount", 0)
    /\ mounted = TRUE /\ vibrationTimeouts = {} /\ timers = {}

(* Panel A ****************************************************************)

\* clearHapticTimeouts, lines 222-225
clearHapticTimeouts ==
    /\ timers' = timers \ vibrationTimeouts
    /\ vibrationTimeouts' = {}

\* scheduleHaptics, lines 254-276: nothing when haptics are off or the data
\* have no segment, else one timeout per segment, here the one of the first
\* segment, named after the source it was scheduled for
scheduleHaptics(on, id) ==
    IF on
    THEN /\ timers' = timers \cup {id}
         /\ vibrationTimeouts' = vibrationTimeouts \cup {id}
    ELSE UNCHANGED <<timers, vibrationTimeouts>>

\* a stopPlayback that leaves sourceRef.current as it is
stopPlaybackA_keepRef(name) ==
    /\ sources' = StopSource(sources, sourceRef, TRUE)
    /\ endedQueue' = StopQueue(sourceRef)
    /\ sourceRef' = sourceRef
    /\ gainRef' = 0
    /\ clearHapticTimeouts
    /\ isPlaying' = FALSE
    /\ lastAction' = Act(name, sourceRef)

\* stopPlayback, lines 227-245
stopPlaybackA(name) ==
    /\ sources' = StopSource(sources, sourceRef, TRUE)
    /\ endedQueue' = StopQueue(sourceRef)
    /\ sourceRef' = 0
    /\ gainRef' = 0
    /\ clearHapticTimeouts
    /\ isPlaying' = FALSE
    /\ lastAction' = Act(name, sourceRef)

\* handlePlay from line 289 on: render, create and start the source, set
\* isPlaying, schedule the haptics.  A state update of a component that is
\* no longer mounted is dropped
playBodyA(name) ==
    /\ NextSource <= MaxSources
    /\ sources' = StartSource(sources, NextSource)
    /\ sourceRef' = NextSource
    /\ gainRef' = NextSource
    /\ isPlaying' = (mounted \/ isPlaying)
    /\ effectPending' = (effectPending \/ (mounted /\ ~isPlaying))
    /\ \E on \in BOOLEAN : scheduleHaptics(on, NextSource)
    /\ lastAction' = Act(name, 0)
    /\ UNCHANGED endedQueue

\* handlePlay, lines 278-313, up to the await or to its end
handlePlayA ==
    /\ variant = "A" /\ mounted
    /\ IF isPlaying
       THEN /\ stopPlaybackA("stop")
            /\ effectPending' = TRUE
            /\ UNCHANGED <<ctxState, inflight>>
       ELSE \E fresh \in {"suspended", "running"} :
              LET state == IF ctxState = "none" THEN fresh ELSE ctxState
              IN  /\ ctxState' = state
                  /\ IF state = "suspended"
                     THEN /\ inflight < MaxInflight
                          /\ inflight' = inflight + 1
                          /\ lastAction' = Act("await", 0)
                          /\ UNCHANGED <<isPlaying, sourceRef, gainRef, sources,
                                         endedQueue, effectPending,
                                         vibrationTimeouts, timers>>
                     ELSE /\ playBodyA("play")
                          /\ UNCHANGED inflight
    /\ UNCHANGED <<variant, settings, mounted>>

\* handlePlay after `await context.resume()`; nothing in it asks whether the
\* panel is still mounted, and nodes can be created in a closed context
handlePlayA_resumed ==
    /\ variant = "A" /\ inflight > 0 /\ ctxState \in {"running", "closing"}
    /\ playBodyA("play")
    /\ inflight' = inflight - 1
    /\ UNCHANGED <<variant, settings, ctxState, mounted>>

\* the effect of lines 332-336
effectA ==
    /\ variant = "A" /\ mounted /\ effectPending
    /\ effectPending' = isPlaying
    /\ IF isPlaying
       THEN stopPlaybackA("effect")
       ELSE /\ lastAction' = Act("effect", 0)
            /\ UNCHANGED <<isPlaying, sourceRef, gainRef, sources, endedQueue,
                           vibrationTimeouts, timers>>
    /\ UNCHANGED <<variant, settings, ctxState, inflight, mounted>>

\* setMode, setSpeed, setQuantize of lines 355, 370, 397; the effect that is
\* due is flushed before the change is rendered
changeOptionA ==
    /\ variant = "A" /\ mounted
    /\ \E next \in SettingsInputs :
          /\ next # settings
          /\ settings' = next
    /\ effectPending' = TRUE
    /\ IF effectPending /\ isPlaying
       THEN stopPlaybackA("change")
       ELSE /\ lastAction' = Act("change", 0)
            /\ UNCHANGED <<isPlaying, sourceRef, gainRef, sources, endedQueue,
                           vibrationTimeouts, timers>>
    /\ UNCHANGED <<variant, ctxState, inflight, mounted>>

\* source.onended of lines 309-312
onendedA ==
    /\ variant = "A"
    /\ \E id \in endedQueue :
          /\ endedQueue' = endedQueue \ {id}
          /\ clearHapticTimeouts
          /\ isPlaying' = FALSE
          /\ lastAction' = Act("ended", id)
    /\ effectPending' = (effectPending \/ isPlaying)
    /\ UNCHANGED <<variant, settings, sourceRef, gainRef, ctxState, sources,
                   inflight, mounted>>

\* the cleanup of lines 315-323 when the panel unmounts: stopPlayback,
\* clearHapticTimeouts, audioContextRef.current.close().  close() is
\* asynchronous: a resume() that was requested before it can still resolve
unmountA ==
    /\ variant = "A" /\ mounted
    /\ stopPlaybackA("unmount")
    /\ mounted' = FALSE
    /\ effectPending' = FALSE
    /\ ctxState' = (IF ctxState = "none" THEN "none"
                    ELSE IF inflight > 0 THEN "closing" ELSE "closed")
    /\ UNCHANGED <<variant, settings, inflight>>

\* a timeout of scheduleHaptics runs: navigator.vibrate(pattern), line 270
timerFires ==
    /\ variant = "A"
    /\ \E id \in timers :
          /\ timers' = timers \ {id}
          /\ lastAction' = Act("vibrate", id)
    /\ UNCHANGED <<variant, isPlaying, settings, sourceRef, gainRef, ctxState,
                   sources, endedQueue, inflight, effectPending, mounted,
                   vibrationTimeouts>>

\* the context finishes closing; a resume() still pending is rejected and
\* the handlePlay that awaits it ends with that exception
contextCloses ==
    /\ variant = "A" /\ ctxState = "closing"
    /\ ctxState' = "closed"
    /\ inflight' = 0
    /\ UNCHANGED <<variant, isPlaying, settings, sourceRef, gainRef, sources,
                   endedQueue, effectPending, lastAction, hapticVars>>

(* Panel B ****************************************************************)

\* stopPlayback, lines 626-630
stopPlaybackB(name) ==
    /\ sources' = StopSource(sources, sourceRef, FALSE)
    /\ endedQueue' = StopQueue(sourceRef)
    /\ sourceRef' = 0
    /\ isPlaying' = FALSE
    /\ lastAction' = Act(name, sourceRef)
    /\ UNCHANGED gainRef

\* handlePlay from line 672 on
playBodyB(name) ==
    /\ NextSource <= MaxSources
    /\ sources' = StartSource(sources, NextSource)
    /\ sourceRef' = NextSource
    /\ gainRef' = NextSource
    /\ isPlaying' = TRUE
    /\ lastAction' = Act(name, 0)
    /\ UNCHANGED endedQueue

\* handlePlay, lines 661-698, with ensureAudioContext, lines 637-659
handlePlayB ==
    /\ variant = "B"
    /\ IF isPlaying
       THEN /\ stopPlaybackB("stop")
            /\ UNCHANGED <<ctxState, inflight>>
       ELSE \E fresh \in {"suspended", "running"} :
              LET state == IF ctxState = "none" THEN fresh ELSE ctxState
              IN  /\ ctxState' = state
                  /\ IF state = "suspended"
                     THEN /\ inflight < MaxInflight
                          /\ inflight' = inflight + 1
                          /\ lastAction' = Act("await", 0)
                          /\ UNCHANGED <<isPlaying, sourceRef, gainRef, sources,
                                         endedQueue>>
                     ELSE /\ playBodyB("play")
                          /\ UNCHANGED inflight
    /\ UNCHANGED <<variant, settings, effectPending>>

\* handlePlay after `await ensureAudioContext()` had to wait for resume()
handlePlayB_resumed ==
    /\ variant = "B" /\ inflight > 0 /\ ctxState = "running"
    /\ playBodyB("play")
    /\ inflight' = inflight - 1
    /\ UNCHANGED <<variant, settings, ctxState, effectPending>>

\* handleModeChange, handleQuantizeToggle, handleSpeedChange, lines 708-727
changeOptionB ==
    /\ variant = "B"
    /\ \E next \in SettingsInputs :
          /\ next # settings
          /\ settings' = next
    /\ IF isPlaying
       THEN stopPlaybackB("change")
       ELSE /\ lastAction' = Act("change", 0)
            /\ UNCHANGED <<isPlaying, sourceRef, gainRef, sources, endedQueue>>
    /\ UNCHANGED <<variant, ctxState, inflight, effectPending>>

\* source.onended of lines 688-691
onendedB ==
    /\ variant = "B"
    /\ \E id \in endedQueue :
          /\ endedQueue' = endedQueue \ {id}
          /\ isPlaying' = FALSE
          /\ sourceRef' = 0
          /\ lastAction' = Act("ended", id)
    /\ UNCHANGED <<variant, settings, gainRef, ctxState, sources, inflight,
                   effectPending>>

(* Panel C ****************************************************************)

\* handleStop, lines 1013-1028
handleStopC(name) ==
    /\ isPlaying' = FALSE
    /\ sources' = StopSource(sources, sourceRef, TRUE)
    /\ endedQueue' = StopQueue(sourceRef)
    /\ sourceRef' = 0
    /\ ctxState' = "none"
    /\ lastAction' = Act(name, sourceRef)
    /\ UNCHANGED gainRef

\* play, lines 1030-1053; createAudioBuffer throws on an empty data set and
\* the click handler of line 1165 then calls handleStop (gainRef keeps
\* naming the last source a gain was connected to)
playC ==
    /\ variant = "C"
    /\ IF isPlaying
       THEN /\ handleStopC("stop")
            /\ effectPending' = TRUE
       ELSE \E dataEmpty \in BOOLEAN :
              IF dataEmpty
              THEN /\ handleStopC("failed")
                   /\ UNCHANGED effectPending
              ELSE /\ NextSource <= MaxSources
                   /\ ctxState' = "running"
                   /\ gainRef' = NextSource
                   /\ sources' = StartSource(sources, NextSource)
                   /\ sourceRef' = NextSource
                   /\ isPlaying' = TRUE
                   /\ effectPending' = TRUE
                   /\ lastAction' = Act("play", 0)
                   /\ UNCHANGED endedQueue
    /\ UNCHANGED <<variant, settings, inflight>>

\* the effect of lines 1064-1069
effectC ==
    /\ variant = "C" /\ effectPending
    /\ effectPending' = isPlaying
    /\ IF isPlaying
       THEN handleStopC("effect")
       ELSE /\ lastAction' = Act("effect", 0)
            /\ UNCHANGED <<isPlaying, sourceRef, gainRef, ctxState, sources,
                           endedQueue>>
    /\ UNCHANGED <<variant, settings, inflight>>

\* setSettings of lines 1095-1138; the effect that is due is flushed before
\* the change is rendered
changeOptionC ==
    /\ variant = "C"
    /\ \E next \in SettingsInputs :
          /\ next # settings
          /\ settings' = next
    /\ effectPending' = TRUE
    /\ IF effectPending /\ isPlaying
       THEN handleStopC("change")
       ELSE /\ lastAction' = Act("change", 0)
            /\ UNCHANGED <<isPlaying, sourceRef, gainRef, ctxState, sources,
                           endedQueue>>
    /\ UNCHANGED <<variant, inflight>>

\* source.onended of lines 1046-1049: setIsPlaying(false); handleStop()
onendedC ==
    /\ variant = "C"
    /\ \E id \in endedQueue :
          /\ isPlaying' = FALSE
          /\ sources' = StopSource(sources, sourceRef, TRUE)
          /\ endedQueue' = StopQueue(sourceRef) \ {id}
          /\ sourceRef' = 0
          /\ ctxState' = "none"
          /\ lastAction' = Act("ended", id)
    /\ effectPending' = (effectPending \/ isPlaying)
    /\ UNCHANGED <<variant, settings, gainRef, inflight>>

(* The browser ************************************************************)

\* the promise of AudioContext.resume() resolves
resumeResolves ==
    /\ ctxState = "suspended" /\ inflight > 0
    /\ ctxState' = "running"
    /\ UNCHANGED <<variant, isPlaying, settings, sourceRef, gainRef, sources,
                   endedQueue, inflight, effectPending, lastAction, hapticVars>>

\* a playing source reaches the end of its buffer; a buffer lasts seconds,
\* so this does not happen while an effect of the render that started it is
\* still due
sourceEnds ==
    /\ ~effectPending
    /\ \E id \in SourceIds :
          /\ sources[id].state = "playing"
          /\ sources' = [sources EXCEPT ![id].state = "ended"]
          /\ endedQueue' = endedQueue \cup {id}
    /\ UNCHANGED <<variant, isPlaying, settings, sourceRef, gainRef, ctxState,
                   inflight, effectPending, lastAction, hapticVars>>

(***************************************************************************)
(* The amplitudes of flux_pitch and odd_even.  renderSonification resolves  *)
(* both masks to the length of the flux array (lines 223-224) before it    *)
(* hands them to amplitudeSeries, so the two inputs have the same length.  *)
(***************************************************************************)
MaxMask == 3

InitAmplitudes ==
    \E n \in 0..MaxMask :
        \E inTr \in [1..n -> BOOLEAN], sec \in [1..n -> BOOLEAN] :
            levels = [pc |-> "ready", inTransit |-> inTr, secondary |-> sec,
                      amplitudes |-> <<>>]

ComputeAmplitudes ==
    /\ levels.pc = "ready"
    /\ levels' = [levels EXCEPT
                    !.amplitudes = amplitudeSeries(levels.inTransit, levels.secondary),
                    !.pc = "done"]

(***************************************************************************)
(* The amplitude of one burst, lines 119-121.  snr and depth are in        *)
(* thousandths; the inputs are the multiples of 0.5 up to MaxSnr / 2 and   *)
(* the thousandths up to MaxDepth / 1000, of both signs.                   *)
(***************************************************************************)
MaxSnr == 10

MaxDepth == 25

InitBurst ==
    \E s \in -MaxSnr..MaxSnr, dp \in -MaxDepth..MaxDepth :
        burst = [pc |-> "ready",
                 event |-> [start_index |-> 0, depth |-> dp, snr |-> 500 * s],
                 amplitude |-> 0]

ComputeAmplitude ==
    /\ burst.pc = "ready"
    /\ burst' = [burst EXCEPT !.amplitude = EventAmplitude(burst.event),
                              !.pc = "done"]

(***************************************************************************)
(* renderTransitPing step by step: the sample loop of lines 104-112, then  *)
(* the event loop of lines 117-130.  A cell of the buffer records what was *)
(* added to it: how often the carrier, the phases (in increments of the    *)
(* 660 Hz step) with which the second tone was added, and the events whose *)
(* bursts were added.  The normalization loop of lines 132-140 rescales    *)
(* every cell in place and adds nothing.  A write to an index outside      *)
(* 0..total-1, which a Float32Array ignores, is counted in `outside`.      *)
(***************************************************************************)
MaxPingPoints == 6

MaxPingEvents == 2

PingLengths == {0, 1, MaxPingPoints}

\* the secondary mask after resolveBoolArray: none, every other point, all
PingMasks(n) ==
    { [i \in 1..n |-> FALSE], [i \in 1..n |-> i % 2 = 1], [i \in 1..n |-> TRUE] }

\* events before the series, inside it and after its end
PingEvents(n) ==
    SeqsUpTo({ [start_index |-> i, depth |-> 10, snr |-> 0] : i \in {-1, 2, n + 1} },
             MaxPingEvents)

EmptyCell == [carrier |-> 0, second |-> <<>>, bursts |-> <<>>]

\* secondaryPhaseState.value after one sample, in increments
SecondaryPhase_resets(phase, on) == IF on THEN phase + 1 ELSE 0

SecondaryPhase(phase, on) == IF on THEN phase + 1 ELSE phase

InitPing ==
    \E n \in PingLengths, speed \in Speeds :
        \E sec \in PingMasks(n), events \in PingEvents(n) :
            ping = [pc |-> "ready", len |-> n, secondary |-> sec, speed |-> speed,
                    events |-> events, perPoint |-> 0, total |-> 0,
                    buffer |-> <<>>, sample |-> 0, phase |-> 0,
                    pingSamples |-> 0, e |-> 0, offset |-> 0, outside |-> 0]

\* renderSonification, lines 226 and 232; renderTransitPing, lines 98-99
EnterPing ==
    /\ ping.pc = "ready"
    /\ LET seg == segmentSamples(ping.len, ping.speed)
       IN  ping' = [ping EXCEPT !.pc = "carrier",
                                !.perPoint = seg.perPoint, !.total = seg.total,
                                !.buffer = Rep(EmptyCell, seg.total),
                                !.sample = 0, !.phase = 0]

\* one iteration of the sample loop, lines 105-111
CarrierStep ==
    /\ ping.pc = "carrier"
    /\ ping.sample < ping.total
    /\ LET dataIndex == Min(ping.len - 1, ping.sample \div ping.perPoint)
           on == IsSecondary(ping.secondary, dataIndex)
           phase == SecondaryPhase(ping.phase, on)
           cell == ping.buffer[ping.sample + 1]
       IN  ping' = [ping EXCEPT
                      !.buffer[ping.sample + 1] =
                          [cell EXCEPT !.carrier = @ + 1,
                                       !.second = IF on THEN Append(@, phase) ELSE @],
                      !.phase = phase,
                      !.sample = @ + 1]

\* the sample loop ends; lines 114-115
CarrierDone ==
    /\ ping.pc = "carrier"
    /\ ping.sample >= ping.total
    /\ ping' = [ping EXCEPT !.pc = "events",
                            !.pingSamples = PingSamples(ping.speed),
                            !.e = 1, !.offset = 0]

\* one iteration of the offset loop, lines 124-128
BurstStep ==
    /\ ping.pc = "events"
    /\ ping.e <= Len(ping.events)
    /\ ping.offset < ping.pingSamples
    /\ LET idx == StartSample(ping.events[ping.e], ping.perPoint, ping.total)
                  + ping.offset
       IN  /\ idx < ping.total
           /\ IF idx >= 0
              THEN ping' = [ping EXCEPT !.buffer[idx + 1].bursts = Append(@, ping.e),
                                        !.offset = @ + 1]
              ELSE ping' = [ping EXCEPT !.outside = @ + 1, !.offset = @ + 1]

\* the offset loop ends, by its bound or by the break of line 125
NextEvent ==
    /\ ping.pc = "events"
    /\ ping.e <= Len(ping.events)
    /\ \/ ping.offset >= ping.pingSamples
       \/ StartSample(ping.events[ping.e], ping.perPoint, ping.total)
              + ping.offset >= ping.total
    /\ ping' = [ping EXCEPT !.e = @ + 1, !.offset = 0]

PingDone ==
    /\ ping.pc = "events"
    /\ ping.e > Len(ping.events)
    /\ ping' = [ping EXCEPT !.pc = "done"]

(***************************************************************************)
(* ExoplanetDetector, exo-sense.tsx.  Files are numbered from 1; 0 stands  *)
(* for null.  `results` holds the number of the file whose analysis it     *)
(* stores, `request` the file that was sent and `stage` the await at which *)
(* handleAnalyze is suspended: the fetch (line 62), response.text() (line  *)
(* 68) or response.json() (line 72); `last` names the handler that ran     *)
(* last.  The Analyze button is disabled while no file is selected or      *)
(* loading is true (line 179); the file input and the drop zone are never  *)
(* disabled.                                                               *)
(***************************************************************************)
MaxFiles == 3

Files == 1..MaxFiles

InitDetector ==
    detector = [pc |-> "mounted", file |-> 0, loading |-> FALSE, results |-> 0,
                error |-> "none", request |-> 0, stage |-> "none",
                last |-> "mount"]

\* the body handleFileChange and handleDrop share
selectFile(f, handler) ==
    IF f # 0
    THEN detector' = [detector EXCEPT !.file = f, !.error = "none", !.results = 0,
                                      !.last = handler]
    ELSE detector' = [detector EXCEPT !.last = handler]

\* handleFileChange, lines 41-48; the input reports a change of its file
handleFileChange ==
    \E f \in Files \cup {0} : f # detector.file /\ selectFile(f, "change")

\* handleDrop, lines 85-93
handleDrop == \E f \in Files \cup {0} : selectFile(f, "drop")

\* handleAnalyze, lines 50-66, up to `await fetch`
handleAnalyze ==
    /\ detector.file # 0 /\ ~detector.loading
    /\ detector' = [detector EXCEPT !.loading = TRUE, !.error = "none",
                                    !.results = 0,
                                    !.request = detector.file, !.stage = "fetch",
                                    !.last = "analyze"]

\* the fetch settles: rejected, or fulfilled with an ok or a failed response
fetchSettles ==
    /\ detector.stage = "fetch"
    /\ \E outcome \in {"rejected", "ok", "failed"} :
          detector' =
              IF outcome = "rejected"
              THEN [detector EXCEPT !.error = "network", !.loading = FALSE,
                                    !.request = 0, !.stage = "none",
                                    !.last = "fetch"]
              ELSE [detector EXCEPT !.stage = IF outcome = "ok" THEN "json"
                                              ELSE "text",
                                    !.last = "fetch"]

\* lines 67-70 and 74-80: the body of a failed response was read, or not
textSettles ==
    /\ detector.stage = "text"
    /\ \E outcome \in {"rejected", "read"} :
          detector' = [detector EXCEPT
                         !.error = IF outcome = "read" THEN "http" ELSE "body",
                         !.loading = FALSE, !.request = 0, !.stage = "none",
                         !.last = "text"]

\* lines 72-73 and 74-80: setResults(data), or the body was no JSON
jsonSettles ==
    /\ detector.stage = "json"
    /\ \E outcome \in {"rejected", "read"} :
          detector' =
              IF outcome = "read"
              THEN [detector EXCEPT !.results = detector.request,
                                    !.loading = FALSE,
                                    !.request = 0, !.stage = "none",
                                    !.last = "json"]
              ELSE [detector EXCEPT !.error = "body", !.loading = FALSE,
                                    !.request = 0, !.stage = "none",
                                    !.last = "json"]

(***************************************************************************)
(* The API client, lib/api.ts.  One call of one of its three functions     *)
(* meets one behaviour of the network: the fetch is rejected, or it is     *)
(* fulfilled with a response of some status whose body is unreadable (not  *)
(* JSON, or the stream fails), the JSON value null, an object without the  *)
(* expected fields, an object with a `detail` string, or the full answer.  *)
(* `thrown` is the message of the exception on its way to the catch block. *)
(***************************************************************************)
ApiFunctions == {"analyzeFile", "generateReport", "checkApiHealth"}

Statuses == {200, 201, 404, 500}

Bodies == {"unreadable", "null", "empty", "detail", "full"}

\* response.ok
Ok(status) == status >= 200 /\ status <= 299

NoValue == [ok |-> FALSE, message |-> "absent", classification |-> "absent",
            analysis_id |-> "absent"]

InitApi ==
    \E fn \in ApiFunctions :
        \/ api = [pc |-> "ready", fn |-> fn, network |-> "down", status |-> 0,
                  body |-> "unreadable", thrown |-> "none",
                  outcome |-> "pending", value |-> NoValue]
        \/ \E status \in Statuses, body \in Bodies :
              api = [pc |-> "ready", fn |-> fn, network |-> "up",
                     status |-> status, body |-> body, thrown |-> "none",
                     outcome |-> "pending", value |-> NoValue]

\* the values returned at lines 52-62, 103-106 and 133-136
SuccessValue(fn, body) ==
    IF fn = "analyzeFile"
    THEN [ok |-> TRUE, message |-> "absent",
          classification |-> IF body = "full" THEN "planet" ELSE "unknown",
          analysis_id |-> IF body = "full" THEN "id" ELSE "unknown"]
    ELSE IF fn = "generateReport"
    THEN [NoValue EXCEPT !.ok = TRUE]
    ELSE [NoValue EXCEPT !.ok = (body = "full"),
                         !.message = IF body = "full" THEN "ok" ELSE "absent"]

\* the values returned by the catch blocks, lines 63-77, 107-113, 137-143;
\* whatever is thrown inside the try blocks is an Error
FailureValue(fn, thrown) ==
    IF fn = "analyzeFile"
    THEN [ok |-> FALSE, message |-> thrown,
          classification |-> "error", analysis_id |-> "error"]
    ELSE [NoValue EXCEPT !.message = thrown]

\* the function is called and waits for its fetch
Call ==
    /\ api.pc = "ready"
    /\ api' = [api EXCEPT !.pc = "fetch"]

\* lines 41, 85, 121: the fetch is rejected or gives a response
FetchSettles ==
    /\ api.pc = "fetch"
    /\ api' = IF api.network = "down"
              THEN [api EXCEPT !.thrown = "Failed to fetch", !.pc = "catch"]
              ELSE [api EXCEPT !.pc = "response"]

\* lines 46, 97, 128: if (!response.ok)
CheckStatus ==
    /\ api.pc = "response"
    /\ api' = IF Ok(api.status) THEN [api EXCEPT !.pc = "body"]
              ELSE IF api.fn = "checkApiHealth"
              THEN [api EXCEPT !.thrown = "HTTP status", !.pc = "catch"]
              ELSE [api EXCEPT !.pc = "errorBody"]

\* lines 47-48, 98-99: errorData is {} when the body is unreadable; reading
\* .detail of null throws a TypeError
ErrorBody ==
    /\ api.pc = "errorBody"
    /\ api' = [api EXCEPT
                 !.thrown = IF api.body = "null" THEN "TypeError"
                            ELSE IF api.body = "detail" THEN "detail"
                            ELSE "HTTP status",
                 !.pc = "catch"]

\* lines 51-62, 102-106, 132-136: await response.json(), build the value
ReadBody ==
    /\ api.pc = "body"
    /\ api' = IF api.body = "unreadable"
              THEN [api EXCEPT !.thrown = "SyntaxError", !.pc = "catch"]
              ELSE IF api.body = "null"
              THEN [api EXCEPT !.thrown = "TypeError", !.pc = "catch"]
              ELSE [api EXCEPT !.value = SuccessValue(api.fn, api.body),
                               !.outcome = "resolved", !.pc = "returned"]

\* a catch block that throws the error again
Catch_rethrows ==
    /\ api.pc = "catch"
    /\ api' = [api EXCEPT !.outcome = "rejected", !.pc = "returned"]

\* the catch blocks: log the error, return the failure value
Catch ==
    /\ api.pc = "catch"
    /\ api' = [api EXCEPT !.value = FailureValue(api.fn, api.thrown),
                          !.outcome = "resolved", !.pc = "returned"]

(***************************************************************************)
(* Specifications.                                                         *)
(***************************************************************************)
NextNormalizer ==
    \/ ResolveBool /\ UNCHANGED <<quantVars, mapVars, renderVars, panelVars, auxVars, moreVars>>
    \/ ResolveTags /\ UNCHANGED <<quantVars, mapVars, renderVars, panelVars, auxVars, moreVars>>

InitSpecNormalizer == InitNormalizer /\ QuantIdle /\ MapIdle /\ RenderIdle /\ PanelIdle /\ AuxIdle /\ MoreIdle

SpecNormalizer == InitSpecNormalizer /\ [][NextNormalizer]_vars

NextQuantizer ==
    \/ Quantize /\ UNCHANGED <<normVars, mapVars, renderVars, panelVars, auxVars, moreVars>>
    \/ Requantize /\ UNCHANGED <<normVars, mapVars, renderVars, panelVars, auxVars, moreVars>>

InitSpecQuantizer == InitQuantizer /\ NormIdle /\ MapIdle /\ RenderIdle /\ PanelIdle /\ AuxIdle /\ MoreIdle

SpecQuantizer == InitSpecQuantizer /\ [][NextQuantizer]_vars

NextMapper == MapFrequencies /\ UNCHANGED <<normVars, quantVars, renderVars, panelVars, auxVars, moreVars>>

InitSpecMapper == InitMapper /\ NormIdle /\ QuantIdle /\ RenderIdle /\ PanelIdle /\ AuxIdle /\ MoreIdle

SpecMapper == InitSpecMapper /\ [][NextMapper]_vars

NextRender == Render /\ UNCHANGED <<normVars, quantVars, mapVars, panelVars, auxVars, moreVars>>

InitSpecRender == InitRender /\ NormIdle /\ QuantIdle /\ MapIdle /\ PanelIdle /\ AuxIdle /\ MoreIdle

SpecRender == InitSpecRender /\ [][NextRender]_vars

NextConstant == MapConstant /\ UNCHANGED <<normVars, quantVars, renderVars, panelVars, auxVars, moreVars>>

InitSpecConstant == InitConstant /\ NormIdle /\ QuantIdle /\ RenderIdle /\ PanelIdle /\ AuxIdle /\ MoreIdle

SpecConstant == InitSpecConstant /\ [][NextConstant]_vars

NextTiming ==
    Segment /\ UNCHANGED <<normVars, quantVars, mapVars, renderVars, panelVars, loop, calls, moreVars>>

InitSpecTiming ==
    InitTiming /\ NormIdle /\ QuantIdle /\ MapIdle /\ RenderIdle /\ PanelIdle
        /\ LoopIdle /\ CallsIdle /\ MoreIdle

SpecTiming == InitSpecTiming /\ [][NextTiming]_vars

NextCalls ==
    \/ PrepareCall /\ UNCHANGED <<normVars, quantVars, mapVars, panelVars, timings, loop, moreVars>>
    \/ RenderCall /\ UNCHANGED <<normVars, quantVars, mapVars, panelVars, timings, loop, moreVars>>

InitSpecCalls ==
    InitCalls /\ NormIdle /\ QuantIdle /\ MapIdle /\ PanelIdle /\ TimingIdle /\ LoopIdle /\ MoreIdle

SpecCalls == InitSpecCalls /\ [][NextCalls]_vars

NextLoop ==
    \/ EnterLoop /\ UNCHANGED <<normVars, quantVars, mapVars, renderVars, panelVars, timings, calls, moreVars>>
    \/ LoopStep /\ UNCHANGED <<normVars, quantVars, mapVars, renderVars, panelVars, timings, calls, moreVars>>
    \/ ExitLoop /\ UNCHANGED <<normVars, quantVars, mapVars, renderVars, panelVars, timings, calls, moreVars>>

InitSpecLoop ==
    InitLoop /\ NormIdle /\ QuantIdle /\ MapIdle /\ RenderIdle /\ PanelIdle
        /\ TimingIdle /\ CallsIdle /\ MoreIdle

SpecLoop == InitSpecLoop /\ [][NextLoop]_vars

otherVars == <<normVars, quantVars, mapVars, renderVars, auxVars, moreVars>>

\* the panels of lines 615-814 and 999-1188 have no haptics
noHaptics == <<otherVars, hapticVars>>

NextPanel ==
    \/ handlePlayA /\ UNCHANGED otherVars
    \/ handlePlayA_resumed /\ UNCHANGED otherVars
    \/ effectA /\ UNCHANGED otherVars
    \/ changeOptionA /\ UNCHANGED otherVars
    \/ onendedA /\ UNCHANGED otherVars
    \/ unmountA /\ UNCHANGED otherVars
    \/ timerFires /\ UNCHANGED otherVars
    \/ contextCloses /\ UNCHANGED otherVars
    \/ handlePlayB /\ UNCHANGED noHaptics
    \/ handlePlayB_resumed /\ UNCHANGED noHaptics
    \/ changeOptionB /\ UNCHANGED noHaptics
    \/ onendedB /\ UNCHANGED noHaptics
    \/ playC /\ UNCHANGED noHaptics
    \/ effectC /\ UNCHANGED noHaptics
    \/ changeOptionC /\ UNCHANGED noHaptics
    \/ onendedC /\ UNCHANGED noHaptics
    \/ resumeResolves /\ UNCHANGED otherVars
    \/ sourceEnds /\ UNCHANGED otherVars

InitSpecPanel == InitPanel /\ NormIdle /\ QuantIdle /\ MapIdle /\ RenderIdle /\ AuxIdle /\ MoreIdle

SpecPanel == InitSpecPanel /\ [][NextPanel]_vars

NextAmplitudes ==
    ComputeAmplitudes
        /\ UNCHANGED <<normVars, quantVars, mapVars, renderVars, panelVars, auxVars,
                       ping, burst, detector, api>>

InitSpecAmplitudes ==
    InitAmplitudes /\ NormIdle /\ QuantIdle /\ MapIdle /\ RenderIdle /\ PanelIdle
        /\ AuxIdle /\ PingIdle /\ BurstIdle /\ DetectorIdle /\ ApiIdle

SpecAmplitudes == InitSpecAmplitudes /\ [][NextAmplitudes]_vars

NextBurst ==
    ComputeAmplitude
        /\ UNCHANGED <<normVars, quantVars, mapVars, renderVars, panelVars, auxVars,
                       levels, ping, detector, api>>

InitSpecBurst ==
    InitBurst /\ NormIdle /\ QuantIdle /\ MapIdle /\ RenderIdle /\ PanelIdle
        /\ AuxIdle /\ AmpsIdle /\ PingIdle /\ DetectorIdle /\ ApiIdle

SpecBurst == InitSpecBurst /\ [][NextBurst]_vars

pingFrame == <<normVars, quantVars, mapVars, renderVars, panelVars, auxVars,
               levels, burst, detector, api>>

NextPing ==
    \/ EnterPing /\ UNCHANGED pingFrame
    \/ CarrierStep /\ UNCHANGED pingFrame
    \/ CarrierDone /\ UNCHANGED pingFrame
    \/ BurstStep /\ UNCHANGED pingFrame
    \/ NextEvent /\ UNCHANGED pingFrame
    \/ PingDone /\ UNCHANGED pingFrame

InitSpecPing ==
    InitPing /\ NormIdle /\ QuantIdle /\ MapIdle /\ RenderIdle /\ PanelIdle
        /\ AuxIdle /\ AmpsIdle /\ BurstIdle /\ DetectorIdle /\ ApiIdle

SpecPing == InitSpecPing /\ [][NextPing]_vars

detectorFrame == <<normVars, quantVars, mapVars, renderVars, panelVars, auxVars,
                   levels, ping, burst, api>>

NextDetector ==
    \/ handleFileChange /\ UNCHANGED detectorFrame
    \/ handleDrop /\ UNCHANGED detectorFrame
    \/ handleAnalyze /\ UNCHANGED detectorFrame
    \/ fetchSettles /\ UNCHANGED detectorFrame
    \/ textSettles /\ UNCHANGED detectorFrame
    \/ jsonSettles /\ UNCHANGED detectorFrame

InitSpecDetector ==
    InitDetector /\ NormIdle /\ QuantIdle /\ MapIdle /\ RenderIdle /\ PanelIdle
        /\ AuxIdle /\ AmpsIdle /\ PingIdle /\ BurstIdle /\ ApiIdle

SpecDetector == InitSpecDetector /\ [][NextDetector]_vars

apiFrame == <<normVars, quantVars, mapVars, renderVars, panelVars, auxVars,
              levels, ping, burst, detector>>

NextApi ==
    \/ Call /\ UNCHANGED apiFrame
    \/ FetchSettles /\ UNCHANGED apiFrame
    \/ CheckStatus /\ UNCHANGED apiFrame
    \/ ErrorBody /\ UNCHANGED apiFrame
    \/ ReadBody /\ UNCHANGED apiFrame
    \/ Catch /\ UNCHANGED apiFrame

InitSpecApi ==
    InitApi /\ NormIdle /\ QuantIdle /\ MapIdle /\ RenderIdle /\ PanelIdle
        /\ AuxIdle /\ AmpsIdle /\ PingIdle /\ BurstIdle /\ DetectorIdle

SpecApi == InitSpecApi /\ [][NextApi]_vars

(***************************************************************************)
(* Claims.                                                                 *)
(***************************************************************************)
GivenLen(values) == IF values.present THEN Len(values.items) ELSE 0

\* C2: a normalized annotation array has exactly N elements, element i is
\* the input element i for every i < min(L, N), and every other element is
\* the default (false for masks, none for tags).
C2_NormalizedLength ==
    /\ "bool" \in normDone =>
          /\ Len(boolResult) = length
          /\ \A i \in 1..length :
                boolResult[i] = IF i <= Min(GivenLen(boolValues), length)
                                THEN boolValues.items[i] ELSE FALSE
    /\ "tags" \in normDone =>
          /\ Len(tagResult) = length
          /\ \A i \in 1..length :
                tagResult[i] = IF i <= Min(GivenLen(tagValues), length)
                               THEN tagValues.items[i] ELSE "null"

\* a mask longer than N with a true element beyond N was cut, and a tag
\* array shorter than N was padded
C2_Witness ==
    /\ normDone = {"bool", "tags"}
    /\ length >= 1
    /\ GivenLen(boolValues) > length
    /\ boolValues.items[length + 1] = TRUE
    /\ Len(boolResult) = length
    /\ GivenLen(tagValues) \in 1..(length - 1)
    /\ tagValues.items[1] = "odd"
    /\ tagResult[length] = "null"

\* C8: quantizing a quantized frequency returns it unchanged.
C8_Idempotent == quantPc = "twice" => requantized = quantized

\* a frequency that is not a scale note was moved, and moved only once
C8_Witness ==
    /\ quantPc = "twice"
    /\ freqIn > 0
    /\ quantized # freqIn
    /\ requantized = quantized

\* the pentatonic notes of octaves 0..10, as semitone numbers
ScaleNotes ==
    {12 * o + PENTATONIC_STEPS[i] : o \in 0..10, i \in 1..Len(PENTATONIC_STEPS)}

\* C9: no pentatonic note in any octave is closer to f, in semitones, than
\* quantizeFrequency(f).
C9_NearestNote ==
    (quantPc # "ready" /\ freqIn > 0) =>
        \A n \in ScaleNotes :
            Abs(MidiOf(freqIn) - MidiOf(quantized)) <= Abs(MidiOf(freqIn) - 100 * n)

\* C10: without quantization every mapped frequency lies in [220, 880] Hz,
\* a sample with z score at or beyond +3 maps to exactly 880 Hz and one at
\* or beyond -3 to exactly 220 Hz.
C10_FrequencyBand ==
    (mapPc = "done" /\ ~quantize /\ Len(flux) >= 1) =>
        /\ Len(freqs) = Len(flux)
        /\ \A i \in 1..Len(flux) :
              /\ freqs[i] >= 220000 /\ freqs[i] <= 880000
              /\ ZScore(flux, i) >= 3000 => freqs[i] = 880000
              /\ ZScore(flux, i) <= -3000 => freqs[i] = 220000

\* an outlier more than three standard deviations above the mean saturated
C10_Witness ==
    /\ mapPc = "done" /\ ~quantize
    /\ \E i \in 1..Len(flux) : ZScore(flux, i) > 3000 /\ freqs[i] = 880000
    /\ \E i \in 1..Len(flux) : freqs[i] > 220000 /\ freqs[i] < 550000

\* every sample of every channel of the rendered audio
AudioSamples ==
    {audio.left[k] : k \in 1..Len(audio.left)}
    \cup (IF audio.right.present
          THEN {audio.right.items[k] : k \in 1..Len(audio.right.items)}
          ELSE {})

\* C1: for a series with N >= 1, every sample of every channel has absolute
\* value at most clamp(volume, 0, 1); a volume <= 0 gives an all-zero buffer
\* and a volume > 1 the same buffer as volume = 1.
C1_PeakWithinVolume ==
    (renderPc = "done" /\ Len(series.flux) >= 1) =>
        /\ \A x \in AudioSamples : Abs(x) <= clamp(options.volume, 0, 1000)
        /\ options.volume <= 0 => AudioSamples = {0}
        /\ options.volume > 1000 =>
              audio = renderSonification(series, [options EXCEPT !.volume = 1000])

\* a stereo render at volume 2 whose loudest sample is at the normalized peak
C1_Witness ==
    /\ renderPc = "done" /\ Len(series.flux) >= 1
    /\ options.volume > 1000
    /\ audio.right.present
    /\ \E x \in AudioSamples : Abs(x) >= 950

\* C3: a series with no flux samples renders, in every mode, to an empty
\* buffer of duration 0.
C3_EmptySeries ==
    (renderPc = "done" /\ Len(series.flux) = 0) =>
        /\ Len(audio.left) = 0
        /\ audio.duration = 0
        /\ NaN \notin AudioSamples

(* Playback panel claims **************************************************)

Playing == {id \in SourceIds : sources[id].state = "playing"}

\* C4: at most one audio source is started and not yet stopped or ended at
\* any time, whatever the interleaving of Play clicks with the resume of
\* the audio context inside handlePlay / play.
C4_SinglePlaying == Cardinality(Playing) <= 1

\* C5: whenever the panel is idle after a Stop click, an ended event, an
\* option change or a failed start, the stored source reference is null and
\* no source that is still playing is connected.
C5_Released ==
    (~isPlaying /\ lastAction.name \in {"stop", "ended", "change", "failed"})
        => /\ sourceRef = 0
           /\ \A id \in Playing : ~sources[id].connected

\* C6: once playing, the panel leaves the playing state only when Stop is
\* pressed, when an option is changed, or when the source it plays has
\* reached the end of its buffer.
C6_StaysPlaying ==
    [][(isPlaying /\ ~isPlaying')
        => \/ lastAction'.name \in {"stop", "change"}
           \/ /\ lastAction'.name = "ended"
              /\ lastAction'.stopped = sourceRef
              /\ sources[sourceRef].state = "ended"]_vars

\* C7: a change of mode, quantize or speed handled while the panel is
\* playing stops the source the panel refers to, clears the reference and
\* sets isPlaying to false in the same step, so no playback starts before.
C7_ChangeStops ==
    [][(isPlaying /\ settings' # settings)
        => /\ ~isPlaying'
           /\ sourceRef' = 0
           /\ sourceRef # 0 => sources'[sourceRef].state # "playing"]_vars

C7_Witness ==
    /\ lastAction.name = "change"
    /\ lastAction.stopped # 0
    /\ sources[lastAction.stopped].state = "stopped"
    /\ ~isPlaying /\ sourceRef = 0

(* Frequency Mapper claims ************************************************)

\* C11: for a flux array whose values are all identical the Frequency
\* Mapper returns 550 Hz for every sample.
C11_ConstantMidpoint ==
    (mapPc = "done" /\ ~quantize) => \A i \in 1..Len(freqs) : freqs[i] = 550000

(* Timing claims **********************************************************)

\* C12: for every N >= 1 the samples rendered at speed 2 are at most half
\* the samples rendered at speed 1, and at no speed fewer than N times
\* MIN_DURATION * SAMPLE_RATE (80 for each data point).
C12_SpeedHalves ==
    timings.points >= 1 =>
        /\ \A a \in timings.results, b \in timings.results :
              (a.speed = 100 /\ b.speed = 200) => 2 * b.segment.total <= a.segment.total
        /\ \A r \in timings.results :
              1000 * r.segment.total >= timings.points * MIN_DURATION * SAMPLE_RATE

C12_Witness ==
    /\ timings.points = MaxSeries
    /\ \A speed \in TimingSpeeds : \E r \in timings.results : r.speed = speed
    /\ \E r \in timings.results : r.speed = 1000 /\ r.segment.total = 80 * MaxSeries

(* Stereo claims **********************************************************)

\* the tag that drives output sample k of the rendered call
TagAt(k) ==
    LET n == Len(series.flux)
        perPoint == segmentSamples(n, options.speed).perPoint
    IN  resolveOddEven(series.odd_even, n)[DataIndex(series, perPoint, k - 1) + 1]

StereoDone ==
    /\ renderPc = "done" /\ options.mode = "odd_even" /\ options.stereo
    /\ Len(series.flux) >= 1

\* C13: in odd_even mode with stereo, a sample whose data index is tagged
\* odd has left = 3 * right (75% and 25% of the value), one tagged even has
\* right = 3 * left, an untagged one has left = right, after normalization
\* and volume scaling; the ratios are exact up to the rounding of the two
\* channels to thousandths, and the louder channel is strictly louder as
\* soon as the sample exceeds that rounding.
C13_StereoSplit ==
    StereoDone =>
        \A k \in 1..Len(audio.left) :
            LET l == audio.left[k]
                r == audio.right.items[k]
            IN  CASE TagAt(k) = "odd" ->
                       /\ Abs(l - 3 * r) <= 6
                       /\ Abs(l) >= Abs(r)
                       /\ Abs(l) > 6 => Abs(l) > Abs(r)
                  [] TagAt(k) = "even" ->
                       /\ Abs(r - 3 * l) <= 6
                       /\ Abs(r) >= Abs(l)
                       /\ Abs(r) > 6 => Abs(r) > Abs(l)
                  [] OTHER -> l = r

C13_Witness ==
    /\ StereoDone
    /\ \E k \in 1..Len(audio.left) : TagAt(k) = "odd" /\ audio.left[k] > 100
    /\ \E k \in 1..Len(audio.left) : TagAt(k) = "even" /\ audio.right.items[k] > 100
    /\ options.volume = 500

\* C14: in odd_even mode without stereo the result is the result of
\* flux_pitch mode for the same series, speed, quantize and volume: one
\* channel with the same samples, whatever the tags are.
C14_MonoIsFluxPitch ==
    (renderPc = "done" /\ options.mode = "odd_even" /\ ~options.stereo) =>
        /\ ~audio.right.present
        /\ audio = renderSonification(series, [options EXCEPT !.mode = "flux_pitch"])
        /\ audio = renderSonification([series EXCEPT !.odd_even = Absent],
                                      [options EXCEPT !.mode = "flux_pitch"])

C14_Witness ==
    /\ renderPc = "done" /\ options.mode = "odd_even" /\ ~options.stereo
    /\ series.odd_even = Present(<<"odd", "even">>)
    /\ Len(series.flux) = MaxPoints
    /\ \E k \in 1..Len(audio.left) : audio.left[k] > 100

\* C15: every rendered audio has sampleRate 16000 and a duration of
\* left.length / 16000 (here in whole microseconds); a right channel is
\* present iff the mode is odd_even and stereo is set, and it is as long as
\* the left channel.
C15_AudioShape ==
    renderPc = "done" =>
        /\ audio.sampleRate = 16000
        /\ audio.duration * 16 <= Len(audio.left) * 1000
        /\ Len(audio.left) * 1000 < (audio.duration + 1) * 16
        /\ audio.right.present <=> (options.mode = "odd_even" /\ options.stereo)
        /\ audio.right.present => Len(audio.right.items) = Len(audio.left)

C15_Witness ==
    /\ renderPc = "done" /\ options.mode = "odd_even" /\ options.stereo
    /\ audio.right.present
    /\ Len(audio.left) = 160 * MaxPoints
    /\ audio.duration = 10000 * MaxPoints

(* Purity claims **********************************************************)

C17_UnusedOptions ==
    renderPc = "done" =>
        /\ options.mode = "transit_ping" =>
              \A q \in BOOLEAN, st \in BOOLEAN :
                  audio = renderSonification(series,
                              [options EXCEPT !.quantize = q, !.stereo = st])
        /\ options.mode = "flux_pitch" =>
              audio = renderSonification(series,
                          [options EXCEPT !.stereo = ~options.stereo])

C17_Witness ==
    /\ renderPc = "done" /\ options.mode = "flux_pitch" /\ options.stereo
    /\ series.odd_even = Present(<<"odd", "even">>)
    /\ Len(series.flux) = MaxPoints
    /\ \E k \in 1..Len(audio.left) : audio.left[k] > 100

(* Scale Quantizer claims *************************************************)

StepSet == {PENTATONIC_STEPS[i] : i \in 1..Len(PENTATONIC_STEPS)}

\* the position of the input inside its octave, in cents
WithinOctave == MidiOf(freqIn) - 1200 * (MidiOf(freqIn) \div 1200)

\* C18: for a positive frequency with note number m (in cents here),
\* quantizeFrequency returns the note 12 * octave + step with octave =
\* floor(m / 12) and step the element of {0,2,4,7,9} nearest to
\* m - 12 * octave, the lower one when two are equally near.
C18_NearestInOctave ==
    (quantPc # "ready" /\ freqIn > 0) =>
        \E step \in StepSet :
            /\ quantized = FreqOfMidi(12 * (MidiOf(freqIn) \div 1200) + step)
            /\ \A t \in StepSet :
                  /\ Abs(100 * step - WithinOctave) <= Abs(100 * t - WithinOctave)
                  /\ Abs(100 * step - WithinOctave) = Abs(100 * t - WithinOctave)
                        => step <= t

\* an input half way between two steps went to the lower one
C18_Witness ==
    /\ quantPc # "ready" /\ freqIn > 0
    /\ WithinOctave \in {100, 300, 550, 800}
    /\ \E step \in StepSet :
          /\ quantized = FreqOfMidi(12 * (MidiOf(freqIn) \div 1200) + step)
          /\ 100 * step < WithinOctave

(* Standard deviation floor ***********************************************)

\* value - mean for n samples of significand m, in eighths of the unit of m
DeviationOfConstant(m, n) ==
    LET a == BigTimes(m, 8)
        b == MeanOfConstant(m, n)
    IN  (((a[4] - b[4]) * LimbBase + (a[3] - b[3])) * LimbBase + (a[2] - b[2]))
            * LimbBase + (a[1] - b[1])

\* 220 + ((z + 3) / 6) * (880 - 220), quantized on request
FreqOfZ(z, q) ==
    LET freq == 220000 + SDiv((clamp(z, -3000, 3000) + 3000) * (880 - 220), 6)
    IN  IF q THEN quantizeFrequency(freq) ELSE freq

\* the z score of a deviation, in thousandths, when the divisor is 1e-6.
\* For a sample below 2 the unit of m is at most 2^-52, so 1e-6 is at least
\* 1e-6 * 2^55 > 33 * 2^30 eighths of it.
FlooredZ(dev) == SDiv(SDiv(1000 * dev, Pow2(30)), 33)

\* C19: for a flux array whose standard deviation is below 1e-6, zero or
\* positive, the z scores are computed with the divisor 1e-6.
C19_FlooredDivisor ==
    (mapPc = "done" /\ Abs(DeviationOfConstant(flux[1], Len(flux))) < Pow2(30)) =>
        \A i \in 1..Len(freqs) :
            freqs[i] = FreqOfZ(FlooredZ(DeviationOfConstant(flux[i], Len(flux))), quantize)

(* Sample loop claims *****************************************************)

\* C20: for N >= 1 and every speed, total = perPoint * N with perPoint >= 1;
\* the data index of output sample s is floor(s / perPoint) and lies in
\* [0, N - 1], so no lookup is out of range, the data points are taken in
\* order and each drives exactly perPoint samples.
C20_DataIndex ==
    (loop.pc \in {"loop", "done"} /\ loop.len >= 1) =>
        /\ loop.perPoint >= 1
        /\ loop.total = loop.perPoint * loop.len
        /\ loop.outside = 0
        /\ loop.sample >= 1 =>
              /\ loop.dataIndex = (loop.sample - 1) \div loop.perPoint
              /\ loop.dataIndex \in 0..(loop.len - 1)
        /\ \A d \in 1..loop.len :
              loop.driven[d] = clamp(loop.sample - (d - 1) * loop.perPoint, 0, loop.perPoint)
        /\ loop.pc = "done" => \A d \in 1..loop.len : loop.driven[d] = loop.perPoint

C20_Witness ==
    /\ loop.pc = "done" /\ loop.len = MaxSeries /\ loop.speed = 150
    /\ loop.perPoint = 213
    /\ loop.dataIndex = MaxSeries - 1
    /\ loop.driven[MaxSeries] = 213

\* C21: the speed is clamped to [0.25, 4]: a speed below 0.25 gives the
\* sample count of 0.25, a speed above 4 that of 4, and for one series
\* length the sample count never increases when the speed increases.
C21_SpeedMonotonic ==
    \A a \in timings.results, b \in timings.results :
        /\ (a.speed <= 25 /\ b.speed <= 25) => a.segment = b.segment
        /\ (a.speed >= 400 /\ b.speed >= 400) => a.segment = b.segment
        /\ a.speed <= b.speed => a.segment.total >= b.segment.total

C21_Witness ==
    /\ timings.points = MaxSeries
    /\ \A speed \in TimingSpeeds : \E r \in timings.results : r.speed = speed
    /\ \E a \in timings.results, b \in timings.results :
          a.speed = 10 /\ b.speed = 25 /\ a.segment.total = 1280 * MaxSeries
          /\ b.segment.total = 1280 * MaxSeries
    /\ \E a \in timings.results, b \in timings.results :
          a.speed = 100 /\ b.speed = 150 /\ a.segment.total > b.segment.total

\* C22: the amplitude of a point is 0.18, plus 0.15 in transit, plus 0.08 in
\* secondary eclipse; it is one of 0.18, 0.26, 0.33 and 0.41, and a point in
\* transit is never quieter than a point out of transit with the same
\* secondary flag
C22_AmplitudeLevels ==
    levels.pc = "done" =>
        /\ Len(levels.amplitudes) = Len(levels.inTransit)
        /\ \A i \in 1..Len(levels.amplitudes) :
              /\ levels.amplitudes[i] \in {180, 260, 330, 410}
              /\ levels.amplitudes[i] >= 80 /\ levels.amplitudes[i] <= 650
              /\ levels.amplitudes[i] =
                    180 + (IF levels.inTransit[i] THEN 150 ELSE 0)
                        + (IF levels.secondary[i] THEN 80 ELSE 0)
              /\ \A j \in 1..Len(levels.amplitudes) :
                    (/\ levels.inTransit[i] /\ ~levels.inTransit[j]
                     /\ levels.secondary[i] = levels.secondary[j])
                        => levels.amplitudes[i] >= levels.amplitudes[j]

C22_Witness ==
    /\ levels.pc = "done"
    /\ \E i, j \in 1..Len(levels.amplitudes) :
          /\ levels.inTransit[i] /\ levels.secondary[i]
          /\ ~levels.inTransit[j] /\ levels.secondary[j]
          /\ levels.amplitudes[i] = 410 /\ levels.amplitudes[j] = 260

\* C24: the amplitude of a burst is clamp(|snr| / 5, 0.2, 0.8) when snr is
\* not zero and clamp(|depth| * 40, 0.2, 0.8) when it is; it lies in
\* [0.2, 0.8] whatever the signs of snr and depth
C24_BurstAmplitude ==
    burst.pc = "done" =>
        /\ burst.amplitude >= 200 /\ burst.amplitude <= 800
        /\ burst.event.snr # 0 =>
              burst.amplitude = clamp(Abs(burst.event.snr) \div 5, 200, 800)
        /\ burst.event.snr = 0 =>
              burst.amplitude = clamp(Abs(burst.event.depth) * 40, 200, 800)

C24_Witness ==
    /\ burst.pc = "done"
    /\ burst.event.snr = -2500 /\ burst.event.depth = -20
    /\ burst.amplitude = 500

\* the first sample of the burst of event e, as C23 states it
BurstStart(e) ==
    Min(ping.total - 1, Max(0, ping.events[e].start_index * ping.perPoint))

\* the length of a burst, as C23 states it (the speed is in hundredths)
BurstLength == Max(1, 160000 \div clamp(ping.speed, 25, 400))

\* C23: every event adds its burst to exactly the samples of
\* [start, start + pingSamples) that lie in the buffer, start being
\* start_index * perPoint clamped to [0, total - 1]; bursts of several
\* events add up, and no write falls outside the buffer
C23_BurstWindow ==
    /\ ping.outside = 0
    /\ ping.pc = "done" =>
          \A s \in 0..(ping.total - 1) :
              LET hits == ping.buffer[s + 1].bursts
                  due == { e \in 1..Len(ping.events) :
                              /\ BurstStart(e) <= s
                              /\ s < BurstStart(e) + BurstLength }
              IN  /\ Len(hits) = Cardinality(due)
                  /\ { hits[k] : k \in 1..Len(hits) } = due

\* a burst before the series starts at sample 0 and runs its full length, a
\* second one overlaps it and is cut at the end of the buffer
C23_Witness ==
    /\ ping.pc = "done"
    /\ Len(ping.events) = 2
    /\ ping.events[1].start_index = -1 /\ ping.events[2].start_index = 2
    /\ BurstLength < ping.total
    /\ BurstStart(2) + BurstLength > ping.total
    /\ ping.buffer[BurstLength].bursts = <<1, 2>>
    /\ ping.buffer[BurstLength + 1].bursts = <<2>>
    /\ ping.buffer[ping.total].bursts = <<2>>

\* the number of samples up to and including s whose data point has the
\* secondary mask set
SecondarySamples(s) ==
    LET d == Min(ping.len - 1, s \div ping.perPoint)
    IN  IF d < 0 THEN 0
        ELSE ping.perPoint * Cardinality({ j \in 1..d : ping.secondary[j] })
             + (IF ping.secondary[d + 1] THEN s - d * ping.perPoint + 1 ELSE 0)

\* C25: the carrier is added once to every sample; the second tone is added
\* to exactly the samples whose data point has the secondary mask set, and
\* the k-th such sample gets the phase of k increments whatever gaps lie
\* before it
C25_SecondTone ==
    LET right(s) ==
            LET cell == ping.buffer[s + 1]
                d == Min(ping.len - 1, s \div ping.perPoint)
            IN  /\ cell.carrier = 1
                /\ cell.second =
                      IF d >= 0 /\ ping.secondary[d + 1]
                      THEN <<SecondarySamples(s)>> ELSE <<>>
    IN  /\ ping.pc \in {"carrier", "events", "done"} =>
              ping.phase = (IF ping.sample = 0 THEN 0
                            ELSE SecondarySamples(ping.sample - 1))
        /\ (ping.pc = "carrier" /\ ping.sample > 0) => right(ping.sample - 1)
        /\ ping.pc = "done" =>
              /\ ping.sample = ping.total
              /\ \A s \in 0..(ping.total - 1) : right(s)

\* a mask with gaps: the tone resumes at point 3 with the phase it had at
\* the end of point 1
C25_Witness ==
    /\ ping.pc = "done"
    /\ ping.len >= 3
    /\ ping.secondary[1] /\ ~ping.secondary[2] /\ ping.secondary[3]
    /\ ping.buffer[ping.perPoint].second = <<ping.perPoint>>
    /\ ping.buffer[ping.perPoint + 1].second = <<>>
    /\ ping.buffer[2 * ping.perPoint + 1].second = <<ping.perPoint + 1>>

\* C26: with quantize = true every frequency of a non-empty series is the
\* quantized form of a mapped frequency in [220, 880] Hz and itself lies in
\* [220, 880] Hz
C26_QuantizedBand ==
    (mapPc = "done" /\ quantize /\ Len(flux) >= 1) =>
        /\ Len(freqs) = Len(flux)
        /\ \A i \in 1..Len(flux) :
              LET mapped == frequencySeries(flux, FALSE)[i]
              IN  /\ mapped >= 220000 /\ mapped <= 880000
                  /\ freqs[i] = quantizeFrequency(mapped)
                  /\ freqs[i] >= 220000 /\ freqs[i] <= 880000
        /\ \A h \in 220..880 :
              /\ quantizeFrequency(1000 * h) >= 220000
              /\ quantizeFrequency(1000 * h) <= 880000

\* a series whose outliers saturate at both ends of the band, quantized to
\* the two A notes that bound it, with a note strictly inside the band
C26_Witness ==
    /\ mapPc = "done" /\ quantize
    /\ \E i \in 1..Len(flux) :
          frequencySeries(flux, FALSE)[i] > 220000 /\ freqs[i] = 220000
    /\ \E i \in 1..Len(flux) : freqs[i] > 220000 /\ freqs[i] < 880000

\* C27: the ended event of a source that was stopped and replaced leaves the
\* newer playback as it is: isPlaying stays true, the stored reference still
\* names the newer source, and the audio context is the one it plays in
C27_StaleEnded ==
    [][(\E id \in endedQueue :
            /\ endedQueue' = endedQueue \ {id}
            /\ lastAction' = Act("ended", id)
            /\ sources[id].state = "stopped"
            /\ isPlaying /\ sourceRef # 0 /\ sourceRef # id
            /\ sources[sourceRef].state = "playing")
        => /\ isPlaying'
           /\ sourceRef' = sourceRef
           /\ sources'[sourceRef].state = "playing"
           /\ ctxState' = ctxState]_vars

\* C28: the timeouts of scheduleHaptics are cancelled when the playback is
\* stopped, ends or the panel unmounts: while isPlaying is false no timeout
\* id is left in the list, none is pending, and no vibration callback runs
C28_HapticsCancelled ==
    ~isPlaying =>
        /\ vibrationTimeouts = {}
        /\ timers = {}
        /\ lastAction.name # "vibrate"

\* C29: the results the detector holds are those of the file that is
\* selected: the response for a file that was replaced while its request was
\* in flight is never stored
C29_ResultsOfSelected ==
    detector.results # 0 => detector.results = detector.file

\* the call met a network failure, a non-2xx status or an unreadable body
ApiFailed ==
    \/ api.network = "down"
    \/ ~Ok(api.status)
    \/ api.body = "unreadable"

\* C30: analyzeFile, generateReport and checkApiHealth never reject; after a
\* network failure, a non-2xx status or an unreadable body they resolve with
\* success (healthy) false and an error message, analyzeFile with
\* classification 'error' and analysis_id 'error'
C30_NeverRejects ==
    /\ api.outcome # "rejected"
    /\ api.pc = "returned" =>
          /\ api.outcome = "resolved"
          /\ ApiFailed =>
                /\ ~api.value.ok
                /\ api.value.message \notin {"absent", "none", ""}
                /\ api.fn = "analyzeFile" =>
                      /\ api.value.classification = "error"
                      /\ api.value.analysis_id = "error"

\* a 500 whose body is not JSON: errorData falls back to {} and the HTTP
\* status becomes the message
C30_Witness ==
    /\ api.pc = "returned" /\ api.outcome = "resolved"
    /\ api.fn = "analyzeFile" /\ api.status = 500 /\ api.body = "unreadable"
    /\ api.value.message = "HTTP status"
    /\ api.value.classification = "error"

====
